---- MODULE Spec2Model ----
(***************************************************************************)
(* A model of mexprp: the compilation pipeline of Term::parse_ctx          *)
(* (lexer, parenthesis grouping, name resolution, implicit                 *)
(* multiplication, shunting yard, tree construction) and the evaluator     *)
(* (Term::eval_ctx, the operation nodes, Answer::op / Answer::unop and the *)
(* f64 implementation of Num).                                             *)
(*                                                                         *)
(* Text is a sequence of one-character strings.  An f64 is modelled as an  *)
(* exact rational n/d in lowest terms (d > 0), or one of the non-finite    *)
(* values inf, -inf, NaN; a finite result that is not a rational of the    *)
(* modelled range (an irrational root or power) is the value Irr, which    *)
(* the formulas below exclude from the cases where values are compared.    *)
(* Every variant of a sum type is a record with the same fields, the       *)
(* unused ones holding a fixed filler.                                     *)
(***************************************************************************)
EXTENDS Integers, Sequences, FiniteSets, TLC

VARIABLES text, pctx, pc, stages, parsed, ectx, result, opin, opout, cmp, lex

vars == <<text, pctx, pc, stages, parsed, ectx, result, opin, opout, cmp, lex>>

(***************************************************************************)
(* Bounds of the model.                                                    *)
(***************************************************************************)
MaxLen == 4
MaxAtoms == 3
MaxMulti == 2
MaxDepth == 12
MaxArgs == 3
MaxOrd == 2

(***************************************************************************)
(* Generic helpers.                                                        *)
(***************************************************************************)
Abs(i) == IF i < 0 THEN -i ELSE i

RECURSIVE Gcd(_, _)
Gcd(a, b) == IF b = 0 THEN a ELSE Gcd(b, a % b)

\* The string made of a sequence of one-character strings.
RECURSIVE Concat(_)
Concat(ss) == IF ss = <<>> THEN "" ELSE Head(ss) \o Concat(Tail(ss))

Drop(s, n) == SubSeq(s, n + 1, Len(s))

Take(s, n) == SubSeq(s, 1, n)

\* F(v) with v evaluated once: `let u = v;` followed by the code of F.
With(v, F(_)) == CHOOSE r \in {F(u) : u \in {v}} : TRUE

(***************************************************************************)
(* f64 values.                                                             *)
(***************************************************************************)
Fin(n, d) ==
  LET g == Gcd(Abs(n), Abs(d))
      s == IF d < 0 THEN -1 ELSE 1
  IN [k |-> "fin", n |-> (s * n) \div g, d |-> (s * d) \div g]

Int2Num(i) == [k |-> "fin", n |-> i, d |-> 1]

PInf == [k |-> "inf", n |-> 1, d |-> 0]
NInf == [k |-> "inf", n |-> -1, d |-> 0]
NaN == [k |-> "nan", n |-> 0, d |-> 0]
Irr == [k |-> "irr", n |-> 0, d |-> 0]

IsFin(a) == a.k = "fin"
is_nan(a) == a.k = "nan"
is_infinite(a) == a.k = "inf"
Sign(a) == IF a.n > 0 THEN 1 ELSE IF a.n < 0 THEN -1 ELSE 0
NumNeg(a) == [a EXCEPT !.n = -a.n]

(***************************************************************************)
(* Errors and results.  ParseError and MathError values are records        *)
(* [k, name]; op and num_type of Unimplemented are kept in name and ty.    *)
(***************************************************************************)
Err(kind, name) == [k |-> kind, name |-> name, ty |-> ""]
NoErr == Err("None", "")
UnexpectedToken(tok) == Err("UnexpectedToken", tok)
MismatchedParentheses == Err("MismatchedParentheses", "")
ExpectedExpression == Err("Expected", "Expression")
ExpectedOperator == Err("Expected", "Operator")
UndefinedVariable(name) == Err("UndefinedVariable", name)
UndefinedFunction(name) == Err("UndefinedFunction", name)
IncorrectArguments == Err("IncorrectArguments", "")
DivideByZero == Err("DivideByZero", "")
CmpError == Err("CmpError", "")
Unimplemented(op, ty) == [k |-> "Unimplemented", name |-> op, ty |-> ty]
\* Not a MathError: the process aborts (unimplemented!(), unwrap() on None).
Panic == Err("Panic", "")
\* Not a MathError: the recursion of eval_ctx exceeds the stack.
StackOverflow == Err("StackOverflow", "")

ParseErrorKinds == {"UnexpectedToken", "MismatchedParentheses", "Expected"}
MathErrorKinds == {"UndefinedVariable", "UndefinedFunction", "IncorrectArguments",
                   "DivideByZero", "NaN", "CmpError", "Unimplemented", "Other"}

(***************************************************************************)
(* op.rs: operators, precedence and associativity.                         *)
(***************************************************************************)
MkOp(fix, sym) == [fix |-> fix, sym |-> sym]
NoOp == MkOp("", "")
InOp(sym) == MkOp("In", sym)
PreOp(sym) == MkOp("Pre", sym)
PostOp(sym) == MkOp("Post", sym)

\* precedence with * and / ranked as + and -.
precedence_flat(op) ==
  CASE op.fix = "In" -> (IF op.sym = "Pow" THEN 4 ELSE 2)
    [] op.fix = "Pre" -> 4
    [] op.fix = "Post" -> 4

precedence(op) ==
  CASE op.fix = "In" ->
         (CASE op.sym = "Pow" -> 4
            [] op.sym \in {"Mul", "Div"} -> 3
            [] op.sym \in {"Add", "Sub"} -> 2)
    [] op.fix = "Pre" -> 4
    [] op.fix = "Post" -> 4

\* is_left_associative with ^ taken as left-associative like the other
\* infix operators.
is_left_associative_infix(op) ==
  CASE op.fix = "In" -> TRUE
    [] op.fix = "Pre" -> FALSE
    [] op.fix = "Post" -> TRUE

\* is_left_associative with the prefix operators taken as left-associative.
is_left_associative_prefix(op) ==
  CASE op.fix = "In" -> op.sym # "Pow"
    [] op.fix = "Pre" -> TRUE
    [] op.fix = "Post" -> TRUE

is_left_associative(op) ==
  CASE op.fix = "In" -> op.sym # "Pow"
    [] op.fix = "Pre" -> FALSE
    [] op.fix = "Post" -> TRUE

\* self.should_shunt(other): other is to be evaluated before self.
should_shunt(self, other) ==
  \/ precedence(other) > precedence(self)
  \/ precedence(other) = precedence(self) /\ is_left_associative(other)

(***************************************************************************)
(* parse.rs: tokens.                                                       *)
(***************************************************************************)
MkToken(kind, paren, op, name, num) ==
  [k |-> kind, paren |-> paren, op |-> op, name |-> name, num |-> num]
TokParen(p) == MkToken("Paren", p, NoOp, "", Int2Num(0))
TokOp(op) == MkToken("Op", "", op, "", Int2Num(0))
TokName(name) == MkToken("Name", "", NoOp, name, Int2Num(0))
TokNum(num) == MkToken("Num", "", NoOp, "", num)
TokComma == MkToken("Comma", "", NoOp, "", Int2Num(0))
NoToken == MkToken("", "", NoOp, "", Int2Num(0))

Digits == <<"0", "1", "2", "3", "4", "5", "6", "7", "8", "9">>
is_digit(c) == \E i \in 1..Len(Digits) : Digits[i] = c
DigitVal(c) == (CHOOSE i \in 1..Len(Digits) : Digits[i] = c) - 1
is_alphabetic(c) ==
  c \in {"a", "b", "c", "d", "e", "f", "g", "h", "i", "j", "k", "l", "m",
         "n", "o", "p", "q", "r", "s", "t", "u", "v", "w", "x", "y", "z"}
is_whitespace(c) == c = " "

RECURSIVE Pow10(_)
Pow10(k) == IF k = 0 THEN 1 ELSE 10 * Pow10(k - 1)

RECURSIVE DigitsVal(_)
DigitsVal(ds) ==
  IF ds = <<>> THEN 0
  ELSE 10 * DigitsVal(Take(ds, Len(ds) - 1)) + DigitVal(ds[Len(ds)])

\* str::parse::<f64> on a buffer of digits with at most one '.': "1.", ".5" and
\* "17.8" are numbers, "." alone is an error.
F64Parse(buf) ==
  LET ds == SelectSeq(buf, is_digit)
      dot == IF \E i \in 1..Len(buf) : buf[i] = "."
             THEN CHOOSE i \in 1..Len(buf) : buf[i] = "."
             ELSE Len(buf) + 1
      frac == IF dot > Len(buf) THEN 0 ELSE Len(buf) - dot
  IN [ok |-> ds # <<>>, v |-> Fin(DigitsVal(ds), Pow10(frac))]

Some(tok, rest) == [some |-> TRUE, tok |-> tok, rest |-> rest]
None == [some |-> FALSE, tok |-> NoToken, rest |-> <<>>]

\* The loop of next_num: the length of buf when the loop ends, or -1 when it
\* returns None on a second '.'.
RECURSIVE NumScan(_, _, _)
NumScan(raw, len, dot) ==
  IF len = Len(raw) THEN len
  ELSE IF is_digit(raw[len + 1]) THEN NumScan(raw, len + 1, dot)
  ELSE IF raw[len + 1] = "." THEN (IF dot THEN -1 ELSE NumScan(raw, len + 1, TRUE))
  ELSE len

\* next_num that takes a lone '-' into buf, and so reaches the literal -1.
next_num_minus(raw) ==
  IF raw = <<"-">> THEN Some(TokNum(Int2Num(-1)), <<>>)
  ELSE With(NumScan(raw, 0, FALSE), LAMBDA len :
         IF len <= 0 THEN None
         ELSE With(F64Parse(Take(raw, len)), LAMBDA num :
                IF num.ok THEN Some(TokNum(num.v), Drop(raw, len)) ELSE None))

next_num(raw) ==
  With(NumScan(raw, 0, FALSE), LAMBDA len :
    IF len <= 0 THEN None
    ELSE IF len = Len(raw) /\ Take(raw, len) = <<"-">>
    THEN Some(TokNum(Int2Num(-1)), Drop(raw, len))
    ELSE With(F64Parse(Take(raw, len)), LAMBDA num :
           IF num.ok THEN Some(TokNum(num.v), Drop(raw, len)) ELSE None))

\* next_paren that returns the text it was given as the rest.
next_paren_whole(raw) ==
  IF raw = <<>> THEN None
  ELSE CASE raw[1] = "(" -> Some(TokParen("Open"), raw)
         [] raw[1] = ")" -> Some(TokParen("Close"), raw)
         [] OTHER -> None

next_paren(raw) ==
  IF raw = <<>> THEN None
  ELSE CASE raw[1] = "(" -> Some(TokParen("Open"), Tail(raw))
         [] raw[1] = ")" -> Some(TokParen("Close"), Tail(raw))
         [] OTHER -> None

next_in_op(raw) ==
  IF raw = <<>> THEN None
  ELSE CASE raw[1] = "+" -> Some(TokOp(InOp("Add")), Tail(raw))
         [] raw[1] = "-" -> Some(TokOp(InOp("Sub")), Tail(raw))
         [] raw[1] = "*" -> Some(TokOp(InOp("Mul")), Tail(raw))
         [] raw[1] = "/" -> Some(TokOp(InOp("Div")), Tail(raw))
         [] raw[1] = "^" -> Some(TokOp(InOp("Pow")), Tail(raw))
         [] OTHER -> None

next_pre_op(raw) ==
  IF raw = <<>> THEN None
  ELSE CASE raw[1] = "-" -> Some(TokOp(PreOp("Neg")), Tail(raw))
         [] raw[1] = "+" -> Some(TokOp(PreOp("Pos")), Tail(raw))
         [] OTHER -> None

next_post_op(raw) ==
  IF raw = <<>> THEN None
  ELSE CASE raw[1] = "!" -> Some(TokOp(PostOp("Fact")), Tail(raw))
         [] raw[1] = "%" -> Some(TokOp(PostOp("Percent")), Tail(raw))
         [] OTHER -> None

RECURSIVE NameScan(_, _)
NameScan(raw, len) ==
  IF len = Len(raw) THEN len
  ELSE IF is_alphabetic(raw[len + 1]) \/ raw[len + 1] = "_" THEN NameScan(raw, len + 1)
  ELSE len

next_name(raw) ==
  With(NameScan(raw, 0), LAMBDA len :
    IF len = 0 THEN None
    ELSE Some(TokName(Concat(Take(raw, len))), Drop(raw, len)))

next_comma(raw) ==
  IF raw = <<>> THEN None
  ELSE IF raw[1] = "," THEN Some(TokComma, Tail(raw)) ELSE None

\* get_parse_order that, after an infix operator, tries what it tries after
\* a number.
get_parse_order_infix(last) ==
  CASE last.k = "Paren" /\ last.paren = "Open" -> <<"paren", "name", "num", "pre_op">>
    [] last.k = "Paren" /\ last.paren = "Close" ->
         <<"paren", "comma", "in_op", "post_op", "name", "num">>
    [] last.k = "Op" /\ last.op.fix = "In" ->
         <<"paren", "comma", "in_op", "post_op", "name">>
    [] last.k = "Op" /\ last.op.fix = "Pre" -> <<"paren", "name", "num", "pre_op">>
    [] last.k = "Op" /\ last.op.fix = "Post" ->
         <<"paren", "comma", "name", "in_op", "post_op", "num">>
    [] last.k = "Num" -> <<"paren", "comma", "in_op", "post_op", "name">>
    [] last.k = "Name" -> <<"paren", "comma", "in_op", "name", "post_op", "num">>
    [] last.k = "Comma" -> <<"paren", "name", "num", "pre_op">>
    [] OTHER -> <<"paren", "name", "num", "pre_op">>

\* last is NoToken for Option::None.
get_parse_order(last) ==
  CASE last.k = "Paren" /\ last.paren = "Open" -> <<"paren", "name", "num", "pre_op">>
    [] last.k = "Paren" /\ last.paren = "Close" ->
         <<"paren", "comma", "in_op", "post_op", "name", "num">>
    [] last.k = "Op" /\ last.op.fix = "In" -> <<"paren", "name", "num", "pre_op">>
    [] last.k = "Op" /\ last.op.fix = "Pre" -> <<"paren", "name", "num", "pre_op">>
    [] last.k = "Op" /\ last.op.fix = "Post" ->
         <<"paren", "comma", "name", "in_op", "post_op", "num">>
    [] last.k = "Num" -> <<"paren", "comma", "in_op", "post_op", "name">>
    [] last.k = "Name" -> <<"paren", "comma", "in_op", "name", "post_op", "num">>
    [] last.k = "Comma" -> <<"paren", "name", "num", "pre_op">>
    [] OTHER -> <<"paren", "name", "num", "pre_op">>

TokenFn(fn, raw) ==
  CASE fn = "paren" -> next_paren(raw)
    [] fn = "comma" -> next_comma(raw)
    [] fn = "in_op" -> next_in_op(raw)
    [] fn = "pre_op" -> next_pre_op(raw)
    [] fn = "post_op" -> next_post_op(raw)
    [] fn = "name" -> next_name(raw)
    [] fn = "num" -> next_num(raw)

RECURSIVE SkipWhitespace(_)
SkipWhitespace(raw) ==
  IF raw # <<>> /\ is_whitespace(raw[1]) THEN SkipWhitespace(Tail(raw)) ELSE raw

RECURSIVE TryOrder(_, _)
TryOrder(order, raw) ==
  IF order = <<>> THEN None
  ELSE With(TokenFn(Head(order), raw), LAMBDA got :
         IF got.some THEN got ELSE TryOrder(Tail(order), raw))

next_token(raw0, last) ==
  With(SkipWhitespace(raw0), LAMBDA raw :
    With(TryOrder(get_parse_order(last), raw), LAMBDA got :
      IF got.some THEN [ok |-> TRUE, tok |-> got.tok, rest |-> got.rest, err |-> NoErr]
      ELSE [ok |-> FALSE, tok |-> NoToken, rest |-> <<>>,
            err |-> IF raw = <<>> THEN Panic ELSE UnexpectedToken(raw[1])]))

\* Result<Vec<Token>, ParseError> as [ok, v, err].
Ok(v) == [ok |-> TRUE, v |-> v, err |-> NoErr]
Fail(err) == [ok |-> FALSE, v |-> <<>>, err |-> err]

RECURSIVE TokensLoop(_, _)
TokensLoop(raw, tokens) ==
  IF raw = <<>> THEN Ok(tokens)
  ELSE With(next_token(raw, IF tokens = <<>> THEN NoToken ELSE tokens[Len(tokens)]),
            LAMBDA nt :
              IF nt.ok THEN TokensLoop(nt.rest, Append(tokens, nt.tok))
              ELSE Fail(nt.err))

to_tokens(raw) == TokensLoop(raw, <<>>)

RECURSIVE TrimEnd(_)
TrimEnd(raw) ==
  IF raw # <<>> /\ is_whitespace(raw[Len(raw)]) THEN TrimEnd(Take(raw, Len(raw) - 1)) ELSE raw

trim(raw) == TrimEnd(SkipWhitespace(raw))

(***************************************************************************)
(* parse.rs: grouping by parentheses.                                      *)
(***************************************************************************)
MkParenToken(kind, op, num, name, sub) ==
  [k |-> kind, op |-> op, num |-> num, name |-> name, sub |-> sub]
PtOp(op) == MkParenToken("Op", op, Int2Num(0), "", <<>>)
PtNum(num) == MkParenToken("Num", NoOp, num, "", <<>>)
PtName(name) == MkParenToken("Name", NoOp, Int2Num(0), name, <<>>)
PtSub(sub) == MkParenToken("Sub", NoOp, Int2Num(0), "", sub)
PtComma == MkParenToken("Comma", NoOp, Int2Num(0), "", <<>>)

\* The loop of to_paren_tokens::recurse over raw[i..], with its locals; the
\* subexpression of a matched pair is raw[start + 1 .. i - 1].
RECURSIVE ParenLoop(_, _, _, _, _, _)
ParenLoop(raw, i, start, paren_count, counting, parentokens) ==
  IF i > Len(raw) THEN Ok(parentokens)
  ELSE LET token == raw[i]
       IN CASE token.k = "Num" ->
                 ParenLoop(raw, i + 1, start, paren_count, counting,
                           IF counting THEN parentokens
                           ELSE Append(parentokens, PtNum(token.num)))
            [] token.k = "Op" ->
                 ParenLoop(raw, i + 1, start, paren_count, counting,
                           IF counting THEN parentokens
                           ELSE Append(parentokens, PtOp(token.op)))
            [] token.k = "Name" ->
                 ParenLoop(raw, i + 1, start, paren_count, counting,
                           IF counting THEN parentokens
                           ELSE Append(parentokens, PtName(token.name)))
            [] token.k = "Comma" ->
                 ParenLoop(raw, i + 1, start, paren_count, counting,
                           IF counting THEN parentokens
                           ELSE Append(parentokens, PtComma))
            [] token.k = "Paren" /\ token.paren = "Open" ->
                 ParenLoop(raw, i + 1, IF counting THEN start ELSE i,
                           paren_count + 1, TRUE, parentokens)
            [] token.k = "Paren" /\ token.paren = "Close" ->
                 IF paren_count - 1 < 0 THEN Fail(MismatchedParentheses)
                 ELSE IF paren_count - 1 = 0
                 THEN With(ParenLoop(SubSeq(raw, start + 1, i - 1),
                                     1, 0, 0, FALSE, <<>>),
                           LAMBDA sub :
                             IF sub.ok
                             THEN ParenLoop(raw, i + 1, start, 0, FALSE,
                                            Append(parentokens, PtSub(sub.v)))
                             ELSE sub)
                 ELSE ParenLoop(raw, i + 1, start, paren_count - 1, counting,
                                parentokens)

to_paren_tokens(raw) == ParenLoop(raw, 1, 0, 0, FALSE, <<>>)

get_tokens(raw) ==
  With(to_tokens(raw), LAMBDA raw_tokens :
    IF raw_tokens.ok THEN to_paren_tokens(raw_tokens.v) ELSE raw_tokens)

(***************************************************************************)
(* context.rs: a Context is [vars, funcs, cfg]; vars maps names to terms,  *)
(* funcs maps names to the function bound to them.                         *)
(***************************************************************************)
MkConfig(im, sb) == [implicit_multiplication |-> im, precision |-> 53, sqrt_both |-> sb]
\* Config::new
ConfigNew == MkConfig(TRUE, TRUE)
contains_key(map, name) == name \in DOMAIN map

(***************************************************************************)
(* term.rs: Expr and the passes over it.                                   *)
(***************************************************************************)
MkExpr(kind, num, op, name, sub, args) ==
  [k |-> kind, num |-> num, op |-> op, name |-> name, sub |-> sub, args |-> args]
ExNum(num) == MkExpr("Num", num, NoOp, "", <<>>, <<>>)
ExOp(op) == MkExpr("Op", Int2Num(0), op, "", <<>>, <<>>)
ExSub(sub) == MkExpr("Sub", Int2Num(0), NoOp, "", sub, <<>>)
ExVar(name) == MkExpr("Var", Int2Num(0), NoOp, name, <<>>, <<>>)
ExFunc(name, args) == MkExpr("Func", Int2Num(0), NoOp, name, <<>>, args)

is_operand(e) == e.k \in {"Num", "Var", "Func", "Sub"}

\* slice::split on ParenToken::Comma: the segments between the commas, the
\* empty ones included.
RECURSIVE SplitComma(_, _, _)
SplitComma(raw, i, cur) ==
  IF i > Len(raw) THEN <<cur>>
  ELSE IF raw[i].k = "Comma" THEN <<cur>> \o SplitComma(raw, i + 1, <<>>)
  ELSE SplitComma(raw, i + 1, Append(cur, raw[i]))

\* pending is "" for None (a name is never empty).
RECURSIVE ExprsLoop(_, _, _, _, _)
RECURSIVE ArgsLoop(_, _, _, _)

\* NameIsFunc without the branch of disabled implicit multiplication.
NameIsFuncInTable(name, ctx) == contains_key(ctx.funcs, name)

\* NameIsFunc that takes a name bound as a variable for a variable.
NameIsFuncUnbound(name, ctx) ==
  IF ctx.cfg.implicit_multiplication
  THEN contains_key(ctx.funcs, name) /\ ~contains_key(ctx.vars, name)
  ELSE TRUE

\* The test of paren_to_exprs on a name followed by a subexpression: the name
\* is pushed as a function.
NameIsFunc(name, ctx) ==
  IF ctx.cfg.implicit_multiplication THEN contains_key(ctx.funcs, name) ELSE TRUE

\* The loop of paren_to_exprs over raw[i..], then the leftover pending name.
ExprsLoop(raw, i, pending, mtokens, ctx) ==
  LET flushed == IF pending # "" THEN Append(mtokens, ExVar(pending)) ELSE mtokens
  IN IF i > Len(raw) THEN Ok(flushed)
     ELSE LET rt == raw[i]
          IN CASE rt.k = "Num" ->
                    ExprsLoop(raw, i + 1, "", Append(flushed, ExNum(rt.num)), ctx)
               [] rt.k = "Op" ->
                    ExprsLoop(raw, i + 1, "", Append(flushed, ExOp(rt.op)), ctx)
               [] rt.k = "Name" ->
                    ExprsLoop(raw, i + 1, rt.name, flushed, ctx)
               [] rt.k = "Comma" -> Fail(UnexpectedToken(","))
               [] rt.k = "Sub" ->
                    IF pending # "" /\ NameIsFunc(pending, ctx)
                    THEN With(ArgsLoop(SplitComma(rt.sub, 1, <<>>), 1, <<>>, ctx),
                              LAMBDA args :
                                IF args.ok
                                THEN ExprsLoop(raw, i + 1, "",
                                               Append(mtokens, ExFunc(pending, args.v)),
                                               ctx)
                                ELSE args)
                    ELSE With(ExprsLoop(rt.sub, 1, "", <<>>, ctx),
                              LAMBDA sub :
                                IF sub.ok
                                THEN ExprsLoop(raw, i + 1, "",
                                               Append(flushed, ExSub(sub.v)), ctx)
                                ELSE sub)

\* The loop of tokens_to_args that keeps the empty arguments.
RECURSIVE ArgsLoopKeep(_, _, _, _)
ArgsLoopKeep(args, i, new, ctx) ==
  IF i > Len(args) THEN Ok(new)
  ELSE With(ExprsLoop(args[i], 1, "", <<>>, ctx), LAMBDA arg :
         IF arg.ok THEN ArgsLoopKeep(args, i + 1, Append(new, arg.v), ctx) ELSE arg)

\* The loop of tokens_to_args over the split arguments.
ArgsLoop(args, i, new, ctx) ==
  IF i > Len(args) THEN Ok(new)
  ELSE IF args[i] = <<>> THEN ArgsLoop(args, i + 1, new, ctx)
  ELSE With(ExprsLoop(args[i], 1, "", <<>>, ctx), LAMBDA arg :
         IF arg.ok THEN ArgsLoop(args, i + 1, Append(new, arg.v), ctx) ELSE arg)

paren_to_exprs(raw, ctx) == ExprsLoop(raw, 1, "", <<>>, ctx)

tokens_to_args(raw, ctx) == ArgsLoop(SplitComma(raw, 1, <<>>), 1, <<>>, ctx)

Insert(s, i, e) == Take(s, i - 1) \o <<e>> \o Drop(s, i - 1)

\* The while loop of insert_operators; i counts from 1.
RECURSIVE InsertLoop(_, _)
InsertLoop(raw, i) ==
  IF ~(i < Len(raw)) THEN raw
  ELSE IF is_operand(raw[i]) /\ is_operand(raw[i + 1])
  THEN InsertLoop(Insert(raw, i + 1, ExOp(InOp("Mul"))), i)
  ELSE IF raw[i].k = "Op" /\ raw[i].op.fix = "Post" /\ is_operand(raw[i + 1])
  THEN InsertLoop(Insert(raw, i + 1, ExOp(InOp("Mul"))), i + 1)
  ELSE InsertLoop(raw, i + 1)

\* insert_operators without the recursion into subexpressions and arguments.
insert_operators_flat(raw) == IF raw = <<>> THEN <<>> ELSE InsertLoop(raw, 1)

RECURSIVE insert_operators(_)
insert_operators(raw) ==
  IF raw = <<>> THEN <<>>
  ELSE With(InsertLoop(raw, 1), LAMBDA ins :
         [j \in 1..Len(ins) |->
            CASE ins[j].k = "Sub" -> ExSub(insert_operators(ins[j].sub))
              [] ins[j].k = "Func" ->
                   ExFunc(ins[j].name,
                          [a \in 1..Len(ins[j].args) |-> insert_operators(ins[j].args[a])])
              [] OTHER -> ins[j]])

(***************************************************************************)
(* term.rs: shunting yard.                                                 *)
(***************************************************************************)
\* The inner `while let Some(top_op) = ops.pop()` of recurse: the pair of
\* stack and ops after it.
RECURSIVE ShuntPop(_, _, _)
ShuntPop(op, stack, ops) ==
  IF ops = <<>> THEN [stack |-> stack, ops |-> ops]
  ELSE LET top_op == ops[Len(ops)]
       IN IF should_shunt(op, top_op)
          THEN ShuntPop(op, Append(stack, ExOp(top_op)), Take(ops, Len(ops) - 1))
          ELSE [stack |-> stack, ops |-> ops]

\* The leftover operators with only the top one popped onto the stack.
PopAllTop(stack, ops) ==
  IF ops = <<>> THEN stack ELSE Append(stack, ExOp(ops[Len(ops)]))

\* The leftover operators, popped onto the stack.
RECURSIVE PopAll(_, _)
PopAll(stack, ops) ==
  IF ops = <<>> THEN stack
  ELSE PopAll(Append(stack, ExOp(ops[Len(ops)])), Take(ops, Len(ops) - 1))

RECURSIVE PostfixLoop(_, _, _, _)
PostfixLoop(raw, i, stack, ops) ==
  IF i > Len(raw) THEN PopAll(stack, ops)
  ELSE LET texpr == raw[i]
       IN CASE texpr.k = "Num" -> PostfixLoop(raw, i + 1, Append(stack, texpr), ops)
            [] texpr.k = "Var" -> PostfixLoop(raw, i + 1, Append(stack, texpr), ops)
            [] texpr.k = "Op" ->
                 With(ShuntPop(texpr.op, stack, ops), LAMBDA popped :
                   PostfixLoop(raw, i + 1, popped.stack, Append(popped.ops, texpr.op)))
            [] texpr.k = "Func" ->
                 PostfixLoop(raw, i + 1,
                   Append(stack,
                          ExFunc(texpr.name,
                                 [a \in 1..Len(texpr.args) |->
                                    PostfixLoop(texpr.args[a], 1, <<>>, <<>>)])),
                   ops)
            [] texpr.k = "Sub" ->
                 PostfixLoop(raw, i + 1,
                             Append(stack, ExSub(PostfixLoop(texpr.sub, 1, <<>>, <<>>))),
                             ops)

tokenexprs_to_postfix(raw) == PostfixLoop(raw, 1, <<>>, <<>>)

(***************************************************************************)
(* answer.rs, term.rs: answers and terms.                                  *)
(***************************************************************************)
Single(n) == [k |-> "Single", vals |-> <<n>>]
Multiple(ns) == [k |-> "Multiple", vals |-> ns]
NoAnswer == [k |-> "", vals |-> <<>>]

MkTerm(kind, name, ans, args) == [k |-> kind, name |-> name, ans |-> ans, args |-> args]
TermNum(ans) == MkTerm("Num", "", ans, <<>>)
\* Term::Operation(Rc<Operate>): the struct of opers.rs by name, with a (and b).
TermOperation(oper, operands) == MkTerm("Operation", oper, NoAnswer, operands)
TermFunction(name, args) == MkTerm("Function", name, NoAnswer, args)
TermVar(name) == MkTerm("Var", name, NoAnswer, <<>>)

\* A ComplexFloat { r, i } of two f64.
ComplexFloat(r, i) == [k |-> "complex", r |-> r, i |-> i]

\* A ComplexRugRat { r, i } of two Rational.
ComplexRugRat(r, i) == [k |-> "complex", r |-> r, i |-> i]

\* N::typename() of the numeric type N of a Context<N>; ComplexRugRat, whose
\* impl has no typename, goes by the name of the type.
typename(ctx) == ctx.num

\* N::from_f64(t, ctx) of a finite t: of f64, of ComplexFloat with i: 0.0 and
\* of ComplexRugRat with i: Rational::from(0).
from_f64(t, ctx) ==
  CASE typename(ctx) = "ComplexFloat" -> Single(ComplexFloat(t, Int2Num(0)))
    [] typename(ctx) = "ComplexRugRat" -> Single(ComplexRugRat(t, Int2Num(0)))
    [] OTHER -> Single(t)

\* Result<Term, ParseError> as [ok, v, err] with v the term.
OkTerm(t) == [ok |-> TRUE, v |-> t, err |-> NoErr]
FailTerm(err) == [ok |-> FALSE, v |-> TermVar(""), err |-> err]

(***************************************************************************)
(* term.rs: the tree compiler.                                             *)
(***************************************************************************)
RECURSIVE postfix_to_term(_, _)
RECURSIVE TermLoop(_, _, _, _)
RECURSIVE FuncArgsLoop(_, _, _, _)

\* The arguments of a function, each compiled by postfix_to_term.
FuncArgsLoop(args, i, new, ctx) ==
  IF i > Len(args) THEN Ok(new)
  ELSE With(postfix_to_term(args[i], ctx), LAMBDA t :
         IF t.ok THEN FuncArgsLoop(args, i + 1, Append(new, t.v), ctx)
         ELSE Fail(t.err))

\* The loop of postfix_to_term over raw[i..] and the checks after it.
TermLoop(raw, i, stack, ctx) ==
  IF i > Len(raw)
  THEN IF Len(stack) > 1 THEN FailTerm(ExpectedOperator)
       ELSE IF Len(stack) = 1 THEN OkTerm(stack[1])
       ELSE FailTerm(ExpectedExpression)
  ELSE LET texpr == raw[i]
           n == Len(stack)
       IN CASE texpr.k = "Num" ->
                 TermLoop(raw, i + 1, Append(stack, TermNum(from_f64(texpr.num, ctx))), ctx)
            [] texpr.k = "Var" ->
                 TermLoop(raw, i + 1, Append(stack, TermVar(texpr.name)), ctx)
            [] texpr.k = "Op" /\ texpr.op.fix = "In" ->
                 \* b: pop!(), a: pop!()
                 IF n < 2 THEN FailTerm(ExpectedExpression)
                 ELSE TermLoop(raw, i + 1,
                        Append(Take(stack, n - 2),
                               TermOperation(texpr.op.sym, <<stack[n - 1], stack[n]>>)),
                        ctx)
            [] texpr.k = "Op" /\ texpr.op.fix \in {"Pre", "Post"} ->
                 IF n < 1 THEN FailTerm(ExpectedExpression)
                 ELSE TermLoop(raw, i + 1,
                        Append(Take(stack, n - 1),
                               TermOperation(texpr.op.sym, <<stack[n]>>)),
                        ctx)
            [] texpr.k = "Sub" ->
                 With(postfix_to_term(texpr.sub, ctx), LAMBDA t :
                   IF t.ok THEN TermLoop(raw, i + 1, Append(stack, t.v), ctx) ELSE t)
            [] texpr.k = "Func" ->
                 With(FuncArgsLoop(texpr.args, 1, <<>>, ctx), LAMBDA args :
                   IF args.ok
                   THEN TermLoop(raw, i + 1,
                                 Append(stack, TermFunction(texpr.name, args.v)), ctx)
                   ELSE FailTerm(args.err))

\* postfix_to_term that reports the items left on the stack as a missing
\* expression.
postfix_to_term_leftover(raw, ctx) ==
  With(TermLoop(raw, 1, <<>>, ctx), LAMBDA t :
    IF ~t.ok /\ t.err = ExpectedOperator THEN FailTerm(ExpectedExpression) ELSE t)

postfix_to_term(raw, ctx) == TermLoop(raw, 1, <<>>, ctx)

(***************************************************************************)
(* Term::parse_ctx: the pipeline, with the intermediate representations.   *)
(***************************************************************************)
NoStages == [tokens |-> <<>>, paren_tokens |-> <<>>, exprs |-> <<>>,
             inserted |-> <<>>, postfix |-> <<>>, reached |-> ""]

ParseStages(raw0, ctx) ==
  With(to_tokens(trim(raw0)), LAMBDA toks :
    IF ~toks.ok THEN [NoStages EXCEPT !.reached = "to_tokens"]
    ELSE With(to_paren_tokens(toks.v), LAMBDA ptoks :
      IF ~ptoks.ok
      THEN [NoStages EXCEPT !.tokens = toks.v, !.reached = "to_paren_tokens"]
      ELSE With(paren_to_exprs(ptoks.v, ctx), LAMBDA exprs :
        IF ~exprs.ok
        THEN [NoStages EXCEPT !.tokens = toks.v, !.paren_tokens = ptoks.v,
                              !.reached = "paren_to_exprs"]
        ELSE With(IF ctx.cfg.implicit_multiplication THEN insert_operators(exprs.v)
                  ELSE exprs.v,
                  LAMBDA ins :
                    [tokens |-> toks.v, paren_tokens |-> ptoks.v, exprs |-> exprs.v,
                     inserted |-> ins, postfix |-> tokenexprs_to_postfix(ins),
                     reached |-> "postfix_to_term"]))))

\* parse_ctx reading sqrt_both where it should read implicit_multiplication.
parse_ctx_sqrt_both(raw0, ctx) ==
  With(get_tokens(trim(raw0)), LAMBDA paren_tokens :
    IF ~paren_tokens.ok THEN FailTerm(paren_tokens.err)
    ELSE With(paren_to_exprs(paren_tokens.v, ctx), LAMBDA exprs :
      IF ~exprs.ok THEN FailTerm(exprs.err)
      ELSE postfix_to_term(
             tokenexprs_to_postfix(IF ctx.cfg.sqrt_both
                                   THEN insert_operators(exprs.v)
                                   ELSE exprs.v),
             ctx)))

parse_ctx(raw0, ctx) ==
  With(get_tokens(trim(raw0)), LAMBDA paren_tokens :
    IF ~paren_tokens.ok THEN FailTerm(paren_tokens.err)
    ELSE With(paren_to_exprs(paren_tokens.v, ctx), LAMBDA exprs :
      IF ~exprs.ok THEN FailTerm(exprs.err)
      ELSE postfix_to_term(
             tokenexprs_to_postfix(IF ctx.cfg.implicit_multiplication
                                   THEN insert_operators(exprs.v)
                                   ELSE exprs.v),
             ctx)))

(***************************************************************************)
(* expr.rs: Expression { string, term }.  Its stages are the ones term.rs  *)
(* has; the result is modelled by its term.                                *)
(***************************************************************************)
\* Expression::parse_ctx(raw, ctx): insert_operators is applied whatever the
\* configuration of ctx is, and ctx is not kept.
ExpressionParseCtx(raw0, ctx) ==
  With(get_tokens(trim(raw0)), LAMBDA paren_tokens :
    IF ~paren_tokens.ok THEN FailTerm(paren_tokens.err)
    ELSE With(paren_to_exprs(paren_tokens.v, ctx), LAMBDA exprs :
      IF ~exprs.ok THEN FailTerm(exprs.err)
      ELSE postfix_to_term(tokenexprs_to_postfix(insert_operators(exprs.v)), ctx)))

(***************************************************************************)
(* num/float64.rs: impl Num for f64.  A Calculation is [ok, ans, err].     *)
(***************************************************************************)
CalcOk(ans) == [ok |-> TRUE, ans |-> ans, err |-> NoErr]
CalcErr(err) == [ok |-> FALSE, ans |-> NoAnswer, err |-> err]

\* The arithmetic of f64 on the modelled values.
F64Add(a, b) ==
  CASE is_nan(a) \/ is_nan(b) -> NaN
    [] a.k = "irr" \/ b.k = "irr" -> Irr
    [] is_infinite(a) /\ is_infinite(b) -> IF a.n = b.n THEN a ELSE NaN
    [] is_infinite(a) -> a
    [] is_infinite(b) -> b
    [] OTHER -> Fin(a.n * b.d + b.n * a.d, a.d * b.d)

F64Mul(a, b) ==
  CASE is_nan(a) \/ is_nan(b) -> NaN
    [] a.k = "irr" \/ b.k = "irr" -> Irr
    [] is_infinite(a) \/ is_infinite(b) ->
         IF Sign(a) * Sign(b) = 0 THEN NaN
         ELSE IF Sign(a) * Sign(b) > 0 THEN PInf ELSE NInf
    [] OTHER -> Fin(a.n * b.n, a.d * b.d)

\* a / b for b # 0.
F64Div(a, b) ==
  CASE is_nan(a) \/ is_nan(b) -> NaN
    [] a.k = "irr" \/ b.k = "irr" -> Irr
    [] is_infinite(a) /\ is_infinite(b) -> NaN
    [] is_infinite(a) -> IF Sign(a) * Sign(b) > 0 THEN PInf ELSE NInf
    [] is_infinite(b) -> Int2Num(0)
    [] OTHER -> Fin(a.n * b.d, a.d * b.n)

RECURSIVE IntPow(_, _)
IntPow(b, e) == IF e = 0 THEN 1 ELSE b * IntPow(b, e - 1)

RECURSIVE BitLen(_)
BitLen(n) == IF n = 0 THEN 0 ELSE 1 + BitLen(n \div 2)

\* The widest power (in bits) computed exactly.
PowBits == 20

\* f64::powf on the modelled values; a power outside the exact range is Irr.
F64Pow(a, b) ==
  CASE IsFin(b) /\ b.n = 0 -> Int2Num(1)
    [] IsFin(a) /\ a.n = 1 /\ a.d = 1 -> Int2Num(1)
    [] is_nan(a) \/ is_nan(b) -> NaN
    [] ~IsFin(a) \/ ~IsFin(b) -> Irr
    [] b.d # 1 ->
         IF a.n < 0 THEN NaN
         ELSE IF a.n = 0 THEN (IF b.n > 0 THEN Int2Num(0) ELSE PInf)
         ELSE Irr
    [] Abs(b.n) * BitLen(IF Abs(a.n) > a.d THEN Abs(a.n) ELSE a.d) > PowBits -> Irr
    [] b.n > 0 -> Fin(IntPow(a.n, b.n), IntPow(a.d, b.n))
    [] OTHER ->
         IF a.n = 0 THEN PInf
         ELSE Fin(IntPow(a.d, -b.n), IntPow(a.n, -b.n))

\* The largest root of an exact square root.
MaxRoot == 16

IsSquare(n) == \E r \in 0..MaxRoot : r * r = n
Root(n) == CHOOSE r \in 0..MaxRoot : r * r = n

\* f64::sqrt on the modelled values.
F64Sqrt(a) ==
  CASE is_nan(a) -> NaN
    [] a.k = "irr" -> Irr
    [] is_infinite(a) -> IF a.n > 0 THEN PInf ELSE NaN
    [] a.n < 0 -> NaN
    [] IsSquare(a.n) /\ IsSquare(a.d) -> Fin(Root(a.n), Root(a.d))
    [] OTHER -> Irr

F64Floor(a) == IF IsFin(a) THEN Int2Num(a.n \div a.d) ELSE a
F64Ceil(a) == IF IsFin(a) THEN Int2Num(-((-a.n) \div a.d)) ELSE a
\* Half-way cases round away from zero.
F64Round(a) ==
  IF ~IsFin(a) THEN a
  ELSE IF a.n >= 0 THEN Int2Num((2 * a.n + a.d) \div (2 * a.d))
  ELSE Int2Num(-((2 * (-a.n) + a.d) \div (2 * a.d)))
F64Abs(a) == IF a.k \in {"fin", "inf"} THEN [a EXCEPT !.n = Abs(a.n)] ELSE a

\* sin, tan, asin, atan: exact at 0 only.
F64ZeroAtZero(a) ==
  CASE is_nan(a) -> NaN
    [] IsFin(a) /\ a.n = 0 -> Int2Num(0)
    [] OTHER -> Irr
F64Cos(a) ==
  CASE is_nan(a) -> NaN
    [] IsFin(a) /\ a.n = 0 -> Int2Num(1)
    [] OTHER -> Irr
F64Acos(a) ==
  CASE is_nan(a) -> NaN
    [] IsFin(a) /\ a.n = 1 /\ a.d = 1 -> Int2Num(0)
    [] OTHER -> Irr
F64Atan2(a, b) ==
  CASE is_nan(a) \/ is_nan(b) -> NaN
    [] IsFin(a) /\ a.n = 0 /\ IsFin(b) /\ b.n > 0 -> Int2Num(0)
    [] OTHER -> Irr
\* f64::log(self, base): exact for the logarithm of 1 only.
F64Log(a, b) ==
  CASE is_nan(a) \/ is_nan(b) -> NaN
    [] IsFin(a) /\ a.n = 1 /\ a.d = 1 /\ IsFin(b) /\ b.n > 0 /\ b # Int2Num(1) -> Int2Num(0)
    [] OTHER -> Irr

add(a, b, ctx) == CalcOk(Single(F64Add(a, b)))
sub(a, b, ctx) == CalcOk(Single(F64Add(a, NumNeg(b))))
mul(a, b, ctx) == CalcOk(Single(F64Mul(a, b)))
div(a, b, ctx) ==
  IF IsFin(b) /\ b.n = 0 THEN CalcErr(DivideByZero)
  ELSE CalcOk(Single(F64Div(a, b)))
pow(a, b, ctx) == CalcOk(Single(F64Pow(a, b)))
sqrt(a, ctx) ==
  With(F64Sqrt(a), LAMBDA r :
    CalcOk(IF ctx.cfg.sqrt_both THEN Multiple(<<r, NumNeg(r)>>) ELSE Single(r)))
\* f64 does not override nrt: the default of the trait.
nrt(a, b, ctx) == CalcErr(Unimplemented("Nth Root", "f64"))

(***************************************************************************)
(* num/mod.rs: the default methods of Num; num/complexfloat.rs: impl Num   *)
(* for ComplexFloat.                                                       *)
(***************************************************************************)
\* The `op` each default method of the trait puts in its error.
DefaultOps ==
  [tryord |-> "Comparison", add |-> "Addition", sub |-> "Subtraction",
   mul |-> "Multiplication", div |-> "Division", pow |-> "Exponent",
   sqrt |-> "Square Root", nrt |-> "Nth Root", abs |-> "Absolute Value",
   sin |-> "Sine", cos |-> "Cosine", tan |-> "Tangent", asin |-> "Arc Sine",
   acos |-> "Arc Cosine", atan |-> "Arc Tangent", atan2 |-> "Atan2",
   floor |-> "Flooring", ceil |-> "Ceiling", round |-> "Rounding",
   log |-> "Logarithm"]

\* The default method oper of Num for the type of the context.
NumDefault(oper, ctx) == CalcErr(Unimplemented(DefaultOps[oper], typename(ctx)))

\* a / b of f64 for any b; a zero b is +0.0, as the real part of a number
\* times its conjugate is.
F64Quot(a, b) ==
  IF IsFin(b) /\ b.n = 0
  THEN CASE is_nan(a) -> NaN
         [] a.k = "irr" -> Irr
         [] IsFin(a) /\ a.n = 0 -> NaN
         [] OTHER -> IF a.n > 0 THEN PInf ELSE NInf
  ELSE F64Div(a, b)

conjugate(self) == ComplexFloat(self.r, NumNeg(self.i))

ComplexFloatAdd(self, other, ctx) ==
  CalcOk(Single(ComplexFloat(F64Add(self.r, other.r), F64Add(self.i, other.i))))

ComplexFloatSub(self, other, ctx) ==
  CalcOk(Single(ComplexFloat(F64Add(self.r, NumNeg(other.r)),
                             F64Add(self.i, NumNeg(other.i)))))

ComplexFloatMul(self, other, ctx) ==
  CalcOk(Single(ComplexFloat(
    F64Add(F64Mul(self.r, other.r), NumNeg(F64Mul(self.i, other.i))),
    F64Add(F64Mul(self.r, other.i), F64Mul(self.i, other.r)))))

\* num and den are self and other times the conjugate of other.
ComplexFloatDiv(self, other, ctx) ==
  With(ComplexFloatMul(self, conjugate(other), ctx).ans.vals[1], LAMBDA num :
    With(ComplexFloatMul(other, conjugate(other), ctx).ans.vals[1], LAMBDA den :
      CalcOk(Single(ComplexFloat(F64Quot(num.r, den.r), F64Quot(num.i, den.r))))))

\* The binary operations of impl Num for ComplexFloat, by name: the four it
\* overrides, and the defaults of the trait.
ComplexFloatOp2(oper, a, b, ctx) ==
  CASE oper = "add" -> ComplexFloatAdd(a, b, ctx)
    [] oper = "sub" -> ComplexFloatSub(a, b, ctx)
    [] oper = "mul" -> ComplexFloatMul(a, b, ctx)
    [] oper = "div" -> ComplexFloatDiv(a, b, ctx)
    [] OTHER -> NumDefault(oper, ctx)

\* ComplexRugRat::div: num and den as ComplexFloat::div has them, and the
\* quotients of Rational, which panic on a zero divisor.
ComplexRugRatDiv(self, other, ctx) ==
  With(ComplexFloatMul(self, conjugate(other), ctx).ans.vals[1], LAMBDA num :
    With(ComplexFloatMul(other, conjugate(other), ctx).ans.vals[1], LAMBDA den :
      IF IsFin(den.r) /\ den.r.n = 0 THEN CalcErr(Panic)
      ELSE CalcOk(Single(ComplexRugRat(F64Div(num.r, den.r), F64Div(num.i, den.r))))))

\* The binary operations of impl Num for ComplexRugRat, by name: add, sub and
\* mul are the sums and products of the parts that ComplexFloat has, and the
\* operations after div are unimplemented!().
ComplexRugRatOp2(oper, a, b, ctx) ==
  CASE oper = "add" -> ComplexFloatAdd(a, b, ctx)
    [] oper = "sub" -> ComplexFloatSub(a, b, ctx)
    [] oper = "mul" -> ComplexFloatMul(a, b, ctx)
    [] oper = "div" -> ComplexRugRatDiv(a, b, ctx)
    [] OTHER -> CalcErr(Panic)

\* The unary operations of impl Num for ComplexRugRat: each is unimplemented!().
ComplexRugRatOp1(oper, a, ctx) == CalcErr(Panic)

\* The binary operations of impl Num for f64, by name.
F64Op2(oper, a, b, ctx) ==
  CASE oper = "add" -> add(a, b, ctx)
    [] oper = "sub" -> sub(a, b, ctx)
    [] oper = "mul" -> mul(a, b, ctx)
    [] oper = "div" -> div(a, b, ctx)
    [] oper = "pow" -> pow(a, b, ctx)
    [] oper = "nrt" -> nrt(a, b, ctx)
    [] oper = "atan2" -> CalcOk(Single(F64Atan2(a, b)))
    [] oper = "log" -> CalcOk(Single(F64Log(a, b)))

\* The binary operations of Num passed to Answer::op, by name, of the
\* numeric type of the context.
NumOp2(oper, a, b, ctx) ==
  CASE typename(ctx) = "ComplexFloat" -> ComplexFloatOp2(oper, a, b, ctx)
    [] typename(ctx) = "ComplexRugRat" -> ComplexRugRatOp2(oper, a, b, ctx)
    [] OTHER -> F64Op2(oper, a, b, ctx)

\* Num::sqrt as the trait provides it to a type that does not override it
\* (ComplexFloat): the value plays no part.
sqrt_default(a, ctx) == CalcErr(Unimplemented("Square Root", "ComplexFloat"))

\* The unary operations of impl Num for f64, by name.
F64Op1(oper, a, ctx) ==
  CASE oper = "sqrt" -> sqrt(a, ctx)
    [] oper = "Num::sqrt" -> sqrt_default(a, ctx)
    [] oper = "abs" -> CalcOk(Single(F64Abs(a)))
    [] oper \in {"sin", "tan", "asin", "atan"} -> CalcOk(Single(F64ZeroAtZero(a)))
    [] oper = "cos" -> CalcOk(Single(F64Cos(a)))
    [] oper = "acos" -> CalcOk(Single(F64Acos(a)))
    [] oper = "floor" -> CalcOk(Single(F64Floor(a)))
    [] oper = "ceil" -> CalcOk(Single(F64Ceil(a)))
    [] oper = "round" -> CalcOk(Single(F64Round(a)))

\* The unary operations of Num passed to Answer::unop, by name, of the
\* numeric type of the context: ComplexFloat overrides none.
NumOp1(oper, a, ctx) ==
  CASE typename(ctx) = "ComplexFloat" -> NumDefault(oper, ctx)
    [] typename(ctx) = "ComplexRugRat" -> ComplexRugRatOp1(oper, a, ctx)
    [] OTHER -> F64Op1(oper, a, ctx)

(***************************************************************************)
(* answer.rs: Answer::op and Answer::unop.                                 *)
(***************************************************************************)
\* push_answers that leaves out the values the list already holds.
push_answers_new(answer, list) ==
  list \o SelectSeq(answer.vals, LAMBDA n : \A k \in 1..Len(list) : list[k] # n)

\* push_answers(answer, list): the list after the call.
push_answers(answer, list) == list \o answer.vals

\* The loop `for n2 in n2s { push_answers(oper(n, n2)?, &mut answers) }`
\* from n2s[j] on: the answers after it, or the first error.
RECURSIVE OpInner(_, _, _, _, _, _)

\* OpInner that goes on after an application that failed, without its result.
RECURSIVE OpInnerLenient(_, _, _, _, _, _)
OpInnerLenient(oper, n, n2s, j, answers, ctx) ==
  IF j > Len(n2s) THEN Ok(answers)
  ELSE With(NumOp2(oper, n, n2s[j], ctx), LAMBDA r :
         OpInnerLenient(oper, n, n2s, j + 1,
                        IF r.ok THEN push_answers(r.ans, answers) ELSE answers, ctx))

OpInner(oper, n, n2s, j, answers, ctx) ==
  IF j > Len(n2s) THEN Ok(answers)
  ELSE With(NumOp2(oper, n, n2s[j], ctx), LAMBDA r :
         IF r.ok THEN OpInner(oper, n, n2s, j + 1, push_answers(r.ans, answers), ctx)
         ELSE Fail(r.err))

\* The loop `for n in ns { push_answers(oper(n, n2)?, &mut answers) }`.
RECURSIVE OpLeft(_, _, _, _, _, _)
OpLeft(oper, ns, n2, i, answers, ctx) ==
  IF i > Len(ns) THEN Ok(answers)
  ELSE With(NumOp2(oper, ns[i], n2, ctx), LAMBDA r :
         IF r.ok THEN OpLeft(oper, ns, n2, i + 1, push_answers(r.ans, answers), ctx)
         ELSE Fail(r.err))

\* The nested loops of the Multiple, Multiple case.
RECURSIVE OpOuter(_, _, _, _, _, _)
OpOuter(oper, ns, n2s, i, answers, ctx) ==
  IF i > Len(ns) THEN Ok(answers)
  ELSE With(OpInner(oper, ns[i], n2s, 1, answers, ctx), LAMBDA r :
         IF r.ok THEN OpOuter(oper, ns, n2s, i + 1, r.v, ctx) ELSE r)

AnswerOp(self, other, oper, ctx) ==
  CASE self.k = "Single" /\ other.k = "Single" ->
         NumOp2(oper, self.vals[1], other.vals[1], ctx)
    [] self.k = "Single" /\ other.k = "Multiple" ->
         With(OpInner(oper, self.vals[1], other.vals, 1, <<>>, ctx), LAMBDA r :
           IF r.ok THEN CalcOk(Multiple(r.v)) ELSE CalcErr(r.err))
    [] self.k = "Multiple" /\ other.k = "Single" ->
         With(OpLeft(oper, self.vals, other.vals[1], 1, <<>>, ctx), LAMBDA r :
           IF r.ok THEN CalcOk(Multiple(r.v)) ELSE CalcErr(r.err))
    [] self.k = "Multiple" /\ other.k = "Multiple" ->
         With(OpOuter(oper, self.vals, other.vals, 1, <<>>, ctx), LAMBDA r :
           IF r.ok THEN CalcOk(Multiple(r.v)) ELSE CalcErr(r.err))

RECURSIVE UnopLoop(_, _, _, _, _)
UnopLoop(oper, ns, i, answers, ctx) ==
  IF i > Len(ns) THEN Ok(answers)
  ELSE With(NumOp1(oper, ns[i], ctx), LAMBDA r :
         IF r.ok THEN UnopLoop(oper, ns, i + 1, push_answers(r.ans, answers), ctx)
         ELSE Fail(r.err))

AnswerUnop(self, oper, ctx) ==
  CASE self.k = "Single" -> NumOp1(oper, self.vals[1], ctx)
    [] self.k = "Multiple" ->
         With(UnopLoop(oper, self.vals, 1, <<>>, ctx), LAMBDA r :
           IF r.ok THEN CalcOk(Multiple(r.v)) ELSE CalcErr(r.err))

(***************************************************************************)
(* num/float64.rs: tryord.  The ordering of a value that is not modelled   *)
(* exactly is "Unknown".                                                   *)
(***************************************************************************)
OrdOk(ord) == [ok |-> TRUE, ord |-> ord, err |-> NoErr]
reverse(ord) ==
  CASE ord = "Less" -> "Greater"
    [] ord = "Greater" -> "Less"
    [] OTHER -> ord

partial_cmp(a, b) ==
  IF a.n * b.d < b.n * a.d THEN "Less"
  ELSE IF a.n * b.d > b.n * a.d THEN "Greater"
  ELSE "Equal"

\* The branches of tryord for an infinite self.
TryordInf(self, other) ==
  IF self.n > 0
  THEN (IF is_infinite(other) /\ other.n > 0 THEN "Equal" ELSE "Greater")
  ELSE (IF is_infinite(other) /\ other.n < 0 THEN "Equal" ELSE "Less")

\* tryord that takes the comparison with an infinite other as it is.
tryord_unreversed(self, other, ctx) ==
  CASE is_nan(self) \/ is_nan(other) -> [ok |-> FALSE, ord |-> "", err |-> CmpError]
    [] self.k = "irr" \/ other.k = "irr" -> OrdOk("Unknown")
    [] is_infinite(self) -> OrdOk(TryordInf(self, other))
    [] is_infinite(other) -> OrdOk(TryordInf(other, self))
    [] OTHER -> OrdOk(partial_cmp(self, other))

tryord(self, other, ctx) ==
  CASE is_nan(self) \/ is_nan(other) -> [ok |-> FALSE, ord |-> "", err |-> CmpError]
    [] self.k = "irr" \/ other.k = "irr" -> OrdOk("Unknown")
    [] is_infinite(self) -> OrdOk(TryordInf(self, other))
    [] is_infinite(other) -> OrdOk(reverse(TryordInf(other, self)))
    [] OTHER -> OrdOk(partial_cmp(self, other))

(***************************************************************************)
(* term.rs, opers.rs, context.rs: evaluation.  depth is the room left on   *)
(* the call stack, in calls of eval_ctx.                                   *)
(***************************************************************************)
RECURSIVE eval_ctx(_, _, _)

\* args.iter().map(|term| term.eval_ctx(ctx)).collect::<Result<Vec<_>, _>>()
RECURSIVE EvalAll(_, _, _, _, _)
EvalAll(args, i, done, ctx, depth) ==
  IF i > Len(args) THEN [ok |-> TRUE, v |-> done, err |-> NoErr]
  ELSE With(eval_ctx(args[i], ctx, depth), LAMBDA r :
         IF r.ok THEN EvalAll(args, i + 1, Append(done, r.ans), ctx, depth)
         ELSE Fail(r.err))

\* The structs of opers.rs with operands a and b, as the Num operation each
\* passes to Answer::op.
BinaryOpers == [Add |-> "add", Sub |-> "sub", Mul |-> "mul", Div |-> "div",
                Pow |-> "pow"]

\* let a = self.a.eval_ctx(ctx)?; let b = self.b.eval_ctx(ctx)?; a.op(&b, oper)
BinaryEval(oper, args, ctx, depth) ==
  With(eval_ctx(args[1], ctx, depth), LAMBDA a :
    IF ~a.ok THEN a
    ELSE With(eval_ctx(args[2], ctx, depth), LAMBDA b :
           IF ~b.ok THEN b ELSE AnswerOp(a.ans, b.ans, oper, ctx)))

\* Neg and Percent: a.op(&N::from_f64(factor, ctx)?, |a, b| a.mul(b, ctx))
ScaleEval(factor, args, ctx, depth) ==
  With(eval_ctx(args[1], ctx, depth), LAMBDA a :
    IF ~a.ok THEN a ELSE AnswerOp(a.ans, from_f64(factor, ctx), "mul", ctx))

\* <_ as Operate>::eval of the struct named by the term.
OperateEval(t, ctx, depth) ==
  CASE t.name \in DOMAIN BinaryOpers -> BinaryEval(BinaryOpers[t.name], t.args, ctx, depth)
    [] t.name \in {"Neg", "Percent"} ->
         ScaleEval(IF t.name = "Neg" THEN Int2Num(-1) ELSE Fin(-1, 100),
                   t.args, ctx, depth)
    [] t.name = "Pos" -> eval_ctx(t.args[1], ctx, depth)
    [] t.name = "Fact" -> CalcErr(Panic)

\* The builtins with one argument, as the Num operation each applies.
UnaryFuncs == [Sin |-> "sin", Cos |-> "cos", Sqrt |-> "sqrt", Abs |-> "abs",
               Tan |-> "tan", Asin |-> "asin", Acos |-> "acos", Atan |-> "atan",
               Floor |-> "floor", Ceil |-> "ceil", Round |-> "round"]
\* The builtins with two arguments.
BinaryFuncs == [Nrt |-> "nrt", Atan2 |-> "atan2", Log |-> "log"]

\* A builtin of one argument that evaluates its first argument before it
\* counts the arguments.
UnaryFuncEvalFirst(oper, args, ctx, depth) ==
  IF args = <<>> THEN CalcErr(IncorrectArguments)
  ELSE With(eval_ctx(args[1], ctx, depth), LAMBDA a :
         IF ~a.ok THEN a
         ELSE IF Len(args) # 1 THEN CalcErr(IncorrectArguments)
         ELSE AnswerUnop(a.ans, oper, ctx))

UnaryFuncEval(oper, args, ctx, depth) ==
  IF Len(args) # 1 THEN CalcErr(IncorrectArguments)
  ELSE With(eval_ctx(args[1], ctx, depth), LAMBDA a :
         IF ~a.ok THEN a ELSE AnswerUnop(a.ans, oper, ctx))

BinaryFuncEval(oper, args, ctx, depth) ==
  IF Len(args) # 2 THEN CalcErr(IncorrectArguments)
  ELSE BinaryEval(oper, args, ctx, depth)

\* The loop of Max (want = "Greater") and Min (want = "Less") over the
\* candidates from cands[i] on.
RECURSIVE ExtremeLoop(_, _, _, _, _)
ExtremeLoop(cands, i, best, want, ctx) ==
  IF i > Len(cands) THEN CalcOk(Single(best))
  ELSE With(tryord(cands[i], best, ctx), LAMBDA o :
         IF ~o.ok THEN CalcErr(o.err)
         ELSE ExtremeLoop(cands, i + 1, IF o.ord = want THEN cands[i] ELSE best,
                          want, ctx))

RECURSIVE Flatten(_)
Flatten(answers) ==
  IF answers = <<>> THEN <<>> ELSE Head(answers).vals \o Flatten(Tail(answers))

ExtremeEval(want, args, ctx, depth) ==
  IF args = <<>> THEN CalcErr(IncorrectArguments)
  ELSE With(eval_ctx(args[1], ctx, depth), LAMBDA first :
         IF ~first.ok THEN first
         ELSE IF first.ans.vals = <<>> THEN CalcErr(Panic)
         ELSE With(EvalAll(args, 1, <<>>, ctx, depth), LAMBDA all :
                IF ~all.ok THEN CalcErr(all.err)
                ELSE ExtremeLoop(
                       Tail(Flatten(all.v))
                         \o (IF first.ans.k = "Multiple"
                             THEN Take(first.ans.vals, Len(first.ans.vals) - 1)
                             ELSE <<>>),
                       1, first.ans.vals[Len(first.ans.vals)], want, ctx)))

\* The closure `sum` of tests.rs.
RECURSIVE SumLoop(_, _, _, _, _)
SumLoop(args, i, x, ctx, depth) ==
  IF i > Len(args) THEN CalcOk(x)
  ELSE With(eval_ctx(args[i], ctx, depth), LAMBDA a :
         IF ~a.ok THEN a
         ELSE With(AnswerOp(x, a.ans, "add", ctx), LAMBDA r :
                IF ~r.ok THEN r ELSE SumLoop(args, i + 1, r.ans, ctx, depth)))

\* <_ as Func>::eval of the function bound in the context.
FuncEval(func, args, ctx, depth) ==
  CASE func \in DOMAIN UnaryFuncs -> UnaryFuncEval(UnaryFuncs[func], args, ctx, depth)
    [] func \in DOMAIN BinaryFuncs -> BinaryFuncEval(BinaryFuncs[func], args, ctx, depth)
    [] func = "Max" -> ExtremeEval("Greater", args, ctx, depth)
    [] func = "Min" -> ExtremeEval("Less", args, ctx, depth)
    [] func = "sum" -> SumLoop(args, 1, Single(Int2Num(0)), ctx, depth)

\* eval_ctx with a missing variable reported as a missing function.
eval_ctx_kinds(t, ctx, depth) ==
  IF depth = 0 THEN CalcErr(StackOverflow)
  ELSE CASE t.k = "Num" -> CalcOk(t.ans)
         [] t.k = "Operation" -> OperateEval(t, ctx, depth - 1)
         [] t.k = "Function" ->
              IF contains_key(ctx.funcs, t.name)
              THEN FuncEval(ctx.funcs[t.name], t.args, ctx, depth - 1)
              ELSE CalcErr(UndefinedFunction(t.name))
         [] t.k = "Var" ->
              IF contains_key(ctx.vars, t.name)
              THEN eval_ctx(ctx.vars[t.name], ctx, depth - 1)
              ELSE CalcErr(UndefinedFunction(t.name))

eval_ctx(t, ctx, depth) ==
  IF depth = 0 THEN CalcErr(StackOverflow)
  ELSE CASE t.k = "Num" -> CalcOk(t.ans)
         [] t.k = "Operation" -> OperateEval(t, ctx, depth - 1)
         [] t.k = "Function" ->
              IF contains_key(ctx.funcs, t.name)
              THEN FuncEval(ctx.funcs[t.name], t.args, ctx, depth - 1)
              ELSE CalcErr(UndefinedFunction(t.name))
         [] t.k = "Var" ->
              IF contains_key(ctx.vars, t.name)
              THEN eval_ctx(ctx.vars[t.name], ctx, depth - 1)
              ELSE CalcErr(UndefinedVariable(t.name))

(***************************************************************************)
(* context.rs: Context::empty and Context::new.                            *)
(***************************************************************************)
EmptyMap == [n \in {} |-> 0]

\* num is the numeric type N of the Context<N>.
MkContext(vs, fs, cfg) == [vars |-> vs, funcs |-> fs, cfg |-> cfg, num |-> "f64"]

ContextEmpty == MkContext(EmptyMap, EmptyMap, ConfigNew)

\* pi and e are not rationals of the modelled range; from_f64_complex((0, 1))
\* of f64 keeps the real part.
NewVars == [pi |-> TermNum(Single(Irr)), e |-> TermNum(Single(Irr)),
            i |-> TermNum(Single(Int2Num(0)))]

NewFuncs == [sin |-> "Sin", cos |-> "Cos", max |-> "Max", min |-> "Min",
             sqrt |-> "Sqrt", nrt |-> "Nrt", tan |-> "Tan", abs |-> "Abs",
             asin |-> "Asin", acos |-> "Acos", atan |-> "Atan", atant |-> "Atan2",
             floor |-> "Floor", round |-> "Round", log |-> "Log"]

ContextNew == MkContext(NewVars, NewFuncs, ConfigNew)

\* Context::<ComplexFloat>::new(): from_f64 of pi and e, and
\* from_f64_complex((0.0, 1.0)).
ComplexVars ==
  [pi |-> TermNum(Single(ComplexFloat(Irr, Int2Num(0)))),
   e |-> TermNum(Single(ComplexFloat(Irr, Int2Num(0)))),
   i |-> TermNum(Single(ComplexFloat(Int2Num(0), Int2Num(1))))]

ComplexNew == [ContextNew EXCEPT !.num = "ComplexFloat", !.vars = ComplexVars]

\* Context::<ComplexRugRat>::new().
ComplexRugRatNew == [ContextNew EXCEPT !.num = "ComplexRugRat", !.vars = ComplexVars]

\* set_var and set_func: insert into the map, replacing a binding of the name.
MapInsert(map, name, val) ==
  [n \in DOMAIN map \cup {name} |-> IF n = name THEN val ELSE map[n]]
set_var(ctx, name, val) == [ctx EXCEPT !.vars = MapInsert(ctx.vars, name, val)]
set_func(ctx, name, func) == [ctx EXCEPT !.funcs = MapInsert(ctx.funcs, name, func)]

(***************************************************************************)
(* The inputs.                                                             *)
(***************************************************************************)
\* All texts of at most n characters of the alphabet.
TextsUpTo(alphabet, n) == UNION {[1..l -> alphabet] : l \in 0..n}

Alphabet == {"2", "x", "f", "(", ")", "+", "*", " ", ",", "!"}

\* The examples of the documentation and of tests.rs.
TextBasic ==
  <<"(", "3", " ", "*", " ", "(", "1", "7", ".", "8", " ", "-", " ", "4", ")",
    " ", "^", " ", "2", ")", " ", "/", " ", "7">>
TextPow == <<"2", " ", "^", " ", "3", " ", "^", " ", "2">>
TextFunky ==
  <<"3", "(", "x", " ", "*", " ", "-", "(", "3", " ", "+", " ", "1", ")", ")">>
TextCoefficient == <<"4", "x">>
TextUnbound == <<"2", " ", "*", " ", "y">>
TextUnclosed == <<"2", " ", "(", "3">>
TextUnclosedSum == <<"(", "3", " ", "+", " ", "4">>
TextAdjacentGroup == <<"3", "(", "x", ")">>
TextAdjacentName == <<"2", " ", "x", " ", "+">>
TextRoots == <<"s", "q", "r", "t", "(", "4", ")", " ", "+", " ", "1">>
TextSum ==
  <<"s", "u", "m", "(", "4", ",", " ", "5", ",", " ", "6", ")", " ", "/", " ", "3">>

Examples ==
  {TextBasic, TextPow, TextFunky, TextCoefficient, TextUnbound, TextUnclosed,
   TextUnclosedSum, TextAdjacentGroup, TextAdjacentName, TextRoots, TextSum}

\* A context with the builtins, the closure sum of tests.rs bound to f and
\* to sum, and x = 2.
UserContext(im, sb) ==
  [set_var(set_func(set_func(ContextNew, "f", "sum"), "sum", "sum"),
           "x", TermNum(Single(Int2Num(2))))
     EXCEPT !.cfg = MkConfig(im, sb)]

ParseContexts == {UserContext(im, TRUE) : im \in BOOLEAN}

\* The texts built from the literals 2 and 3, the infix operators + - * / and
\* parentheses, with at most MaxAtoms literals.  ArithOperand(k) are those
\* of k literals that are a literal or a parenthesized group, ArithChain(k)
\* those that are `left operator operand`.
ArithLits == {"2", "3"}
ArithOps == {"+", "-", "*", "/"}

RECURSIVE ArithChain(_)
ArithOperand(k) ==
  IF k = 1 THEN {<<l>> : l \in ArithLits}
  ELSE {<<"(">> \o t \o <<")">> : t \in ArithChain(k)}

ArithChain(k) ==
  IF k = 1 THEN {<<l>> : l \in ArithLits}
  ELSE UNION {{a \o <<o>> \o b : a \in ArithChain(i) \cup ArithOperand(i),
                                o \in ArithOps, b \in ArithOperand(k - i)}
              : i \in 1..(k - 1)}

ArithTexts == UNION {ArithChain(k) \cup ArithOperand(k) : k \in 1..MaxAtoms}

\* The operands of the chains of powers: a literal, a variable, a
\* parenthesized group and a function call.
PowOperands == {<<"2">>, <<"3">>, <<"x">>, <<"(", "2", "+", "3", ")">>,
                <<"f", "(", "2", ")">>}
PowChain(a, b, c) == a \o <<"^">> \o b \o <<"^">> \o c
PowTexts == {PowChain(a, b, c) : a \in PowOperands, b \in PowOperands, c \in PowOperands}

\* The values and the answers Answer::op and Answer::unop are called on: an
\* Answer is a public enum, its Multiple holds any Vec.
OpValues == {Int2Num(0), Int2Num(1), Int2Num(2), Int2Num(-2), Int2Num(4)}
OpAnswers == {Single(n) : n \in OpValues}
               \cup {Multiple(ns) : ns \in UNION {[1..l -> OpValues] : l \in 0..MaxMulti}}
\* The closures opers.rs and context.rs pass to Answer::op and Answer::unop.
BinaryOperNames == {"add", "div", "pow", "nrt"}
UnaryOperNames == {"sqrt", "abs", "Num::sqrt"}
OpContexts == {UserContext(TRUE, sb) : sb \in BOOLEAN}
OpTexts == {TextRoots}

\* The f64 values tryord is called on: NaN, the infinities and the finite
\* values of small numerator, halves included.
OrdValues == {NaN, PInf, NInf} \cup {Fin(n, d) : n \in -MaxOrd..MaxOrd, d \in 1..2}

EvalContexts == {UserContext(TRUE, TRUE), UserContext(TRUE, FALSE), ContextEmpty, ComplexNew}

\* The texts of literals and operators evaluated with each numeric type, and
\* calls of builtins.
NumAlphabet == {"5", "0", "/", "%", "!", "-", "*"}
TextDivZero == <<"5", " ", "/", " ", "0">>
TextPercent == <<"5", "0", "%">>
TextFact == <<"3", "!">>
TextSqrt == <<"s", "q", "r", "t", "(", "4", ")">>
TextCeil == <<"c", "e", "i", "l", "(", "2", ")">>
TextPower == <<"2", " ", "^", " ", "3">>
NumTexts ==
  TextsUpTo(NumAlphabet, MaxLen)
    \cup {TextDivZero, TextPercent, TextFact, TextSqrt, TextCeil, TextPower}
NumContexts == {ContextNew, ComplexNew, ComplexRugRatNew}

\* The calls of max and min with at most MaxArgs arguments, each a literal
\* or a variable; n is bound to NaN and m to a Multiple.
ExtremeArgs == {"n", "m", "2", "5"}
RECURSIVE ArgList(_)
ArgList(args) ==
  IF Len(args) = 1 THEN <<args[1]>>
  ELSE <<args[1], ",">> \o ArgList(Tail(args))
Call(name, args) == name \o <<"(">> \o ArgList(args) \o <<")">>
ExtremeTexts ==
  {Call(name, args) : name \in {<<"m", "a", "x">>, <<"m", "i", "n">>},
                      args \in UNION {[1..l -> ExtremeArgs] : l \in 1..MaxArgs}}
ExtremeContext ==
  set_var(set_var(ContextNew, "n", TermNum(Single(NaN))),
          "m", TermNum(Multiple(<<Int2Num(1), Int2Num(4)>>)))

\* The texts parsed into an Expression: the one of the test of sum, and the
\* calls of the custom function f on literals and variables.
ExpressionAlphabet == {"f", "(", ")", "2", ",", "x"}
ExpressionTexts == TextsUpTo(ExpressionAlphabet, MaxLen) \cup {TextSum}

\* The calls of the builtins of Context::new() with no argument and with up
\* to MaxArgs arguments, each a literal or the unbound variable y.
BuiltinNames ==
  {<<"s", "i", "n">>, <<"c", "o", "s">>, <<"m", "a", "x">>,
   <<"m", "i", "n">>, <<"s", "q", "r", "t">>, <<"n", "r", "t">>,
   <<"t", "a", "n">>, <<"a", "b", "s">>, <<"a", "s", "i", "n">>,
   <<"a", "c", "o", "s">>, <<"a", "t", "a", "n">>,
   <<"a", "t", "a", "n", "t">>, <<"f", "l", "o", "o", "r">>,
   <<"r", "o", "u", "n", "d">>, <<"l", "o", "g">>}
ArityArgs == {"y", "2"}
ArityTexts ==
  {name \o <<"(", ")">> : name \in BuiltinNames}
    \cup {Call(name, args) : name \in BuiltinNames,
                             args \in UNION {[1..l -> ArityArgs] : l \in 1..MaxArgs}}

\* The texts with a '-' after an infix operator and a power on its right,
\* with and without spaces, and the two of the test plain.
NegOperands == {"2", "3", "x"}
NegInfix == {"+", "-", "*", "/", "^"}
TextPlain == <<"2", " ", "*", " ", "8", ".", "5", " ", "+", " ", "-", "9">>
TextPlainPow ==
  <<"s", "i", "n", "(", "p", "i", ")", "-", "-", "5", " ", "^", " ", "2">>
NegTexts ==
  {<<a, op, "-", b, "^", c>> : a \in NegOperands, op \in NegInfix,
                               b \in NegOperands, c \in NegOperands}
    \cup {<<a, " ", op, " ", "-", b, " ", "^", " ", c>> :
            a \in NegOperands, op \in NegInfix,
            b \in NegOperands, c \in NegOperands}
    \cup {TextPlain, TextPlainPow}

\* The texts the lexer is run on.
LexAlphabet == {"2", "x", "(", ")", "-", "*", "!", ",", " "}
LexTexts == TextsUpTo(LexAlphabet, MaxLen)

\* The texts of calls, groups and commas.
ArgsAlphabet == {"f", "x", "(", ")", "2", ","}
ArgsTexts == TextsUpTo(ArgsAlphabet, MaxLen + 1)

\* A context whose variables refer to themselves and to each other: x is
\* bound to the term of "x + 1", y to the term of "z" and z to the term of "y".
TextSelf == <<"x", " ", "+", " ", "1">>
CyclicContext ==
  set_var(set_var(set_var(ContextNew, "x", parse_ctx(TextSelf, ContextNew).v),
                  "y", TermVar("z")),
          "z", TermVar("y"))
CyclicAlphabet == {"x", "y", "1", "+", " "}
CyclicTexts == TextsUpTo(CyclicAlphabet, MaxLen)

(***************************************************************************)
(* The state machine: a text is parsed with a context (Term::parse_ctx),   *)
(* and the term is evaluated with a context (Term::eval_ctx).              *)
(***************************************************************************)
NoCalc == CalcErr(NoErr)
\* No call of Answer::op or Answer::unop yet.
NoOpIn == [fn |-> "", self |-> NoAnswer, other |-> NoAnswer, oper |-> "",
           ctx |-> ContextEmpty]

\* The loop of to_tokens not entered yet: raw is what is left of the text,
\* tokens the tokens so far, and seen and last the arguments of the latest call
\* of next_token.
NoLex == [raw |-> <<>>, tokens |-> <<>>, err |-> NoErr, seen |-> <<>>,
          last |-> NoToken]

\* No call of tryord yet.
NoOrd == [ok |-> FALSE, ord |-> "", err |-> NoErr]

InitWith(texts, contexts) ==
  /\ text \in texts
  /\ pctx \in contexts
  /\ pc = "start"
  /\ stages = NoStages
  /\ parsed = FailTerm(NoErr)
  /\ ectx = ContextEmpty
  /\ result = NoCalc
  /\ opin = NoOpIn
  /\ opout = NoCalc
  /\ cmp = NoOrd
  /\ lex = NoLex

Init == InitWith(TextsUpTo(Alphabet, MaxLen) \cup Examples, ParseContexts)

\* Term::parse_ctx(text, pctx)
Parse ==
  /\ pc = "start"
  /\ stages' = ParseStages(text, pctx)
  /\ parsed' = parse_ctx(text, pctx)
  /\ pc' = "parsed"
  /\ UNCHANGED <<text, pctx, ectx, result, opin, opout, cmp, lex>>

\* term.eval_ctx(ctx) on the term of a successful parse, with the context of
\* the parse or another one of the same numeric type.
Eval ==
  /\ pc = "parsed"
  /\ parsed.ok
  /\ \E ctx \in {c \in EvalContexts \cup {pctx} : typename(c) = typename(pctx)} :
       /\ ectx' = ctx
       /\ result' = eval_ctx(parsed.v, ctx, MaxDepth)
  /\ pc' = "evaluated"
  /\ UNCHANGED <<text, pctx, stages, parsed, opin, opout, cmp, lex>>

Next == Parse \/ Eval

Spec == Init /\ [][Next]_vars

\* The arithmetic texts and the chains of powers, parsed and evaluated.
InitArith ==
  InitWith(ArithTexts \cup PowTexts \cup {TextBasic, TextPow}, ParseContexts)

SpecArith == InitArith /\ [][Next]_vars

\* Texts parsed and evaluated with Context::<f64>::new() and with
\* Context::<ComplexFloat>::new().
InitNum == InitWith(NumTexts, NumContexts)

SpecNum == InitNum /\ [][Next]_vars

\* The calls of max and min.
InitExtreme == InitWith(ExtremeTexts, {ExtremeContext})

SpecExtreme == InitExtreme /\ [][Next]_vars

\* self.op(&other, oper) with the closure oper of the context pctx.
ApplyOp ==
  /\ pc = "start"
  /\ \E self \in OpAnswers, other \in OpAnswers, oper \in BinaryOperNames :
       /\ opin' = [fn |-> "op", self |-> self, other |-> other, oper |-> oper,
                   ctx |-> pctx]
       /\ opout' = AnswerOp(self, other, oper, pctx)
  /\ pc' = "applied"
  /\ UNCHANGED <<text, pctx, stages, parsed, ectx, result, cmp, lex>>

\* self.unop(oper) with the closure oper of the context pctx.
ApplyUnop ==
  /\ pc = "start"
  /\ \E self \in OpAnswers, oper \in UnaryOperNames :
       /\ opin' = [fn |-> "unop", self |-> self, other |-> NoAnswer, oper |-> oper,
                   ctx |-> pctx]
       /\ opout' = AnswerUnop(self, oper, pctx)
  /\ pc' = "applied"
  /\ UNCHANGED <<text, pctx, stages, parsed, ectx, result, cmp, lex>>

InitCyclic == InitWith(CyclicTexts, {CyclicContext})

SpecCyclic == InitCyclic /\ [][Next]_vars

\* parse_ctx up to the loop of to_tokens: let raw = raw.trim();
\* let mut tokens = Vec::new();
LexStart ==
  /\ pc = "start"
  /\ lex' = [NoLex EXCEPT !.raw = trim(text)]
  /\ pc' = "lexing"
  /\ UNCHANGED <<text, pctx, stages, parsed, ectx, result, opin, opout, cmp>>

\* One turn of the loop of to_tokens:
\* let (tok, new_raw) = next_token(raw, tokens.last())?; tokens.push(tok);
\* raw = new_raw;
LexStep ==
  /\ pc = "lexing"
  /\ lex.raw # <<>>
  /\ LET last == IF lex.tokens = <<>> THEN NoToken ELSE lex.tokens[Len(lex.tokens)]
         nt == next_token(lex.raw, last)
     IN IF nt.ok
        THEN /\ lex' = [raw |-> nt.rest, tokens |-> Append(lex.tokens, nt.tok),
                        err |-> NoErr, seen |-> lex.raw, last |-> last]
             /\ pc' = "lexing"
        ELSE /\ lex' = [lex EXCEPT !.err = nt.err, !.seen = lex.raw, !.last = last]
             /\ pc' = "failed"
  /\ UNCHANGED <<text, pctx, stages, parsed, ectx, result, opin, opout, cmp>>

\* The end of the loop of to_tokens: Ok(tokens).
LexEnd ==
  /\ pc = "lexing"
  /\ lex.raw = <<>>
  /\ pc' = "lexed"
  /\ UNCHANGED <<text, pctx, stages, parsed, ectx, result, opin, opout, cmp, lex>>

InitLex == InitWith(LexTexts, {ContextNew})

NextLex == LexStart \/ LexStep \/ LexEnd

SpecLex == InitLex /\ [][NextLex]_vars

\* Expression::parse_ctx(text, pctx).
ExpressionParse ==
  /\ pc = "start"
  /\ stages' = ParseStages(text, [pctx EXCEPT !.cfg.implicit_multiplication = TRUE])
  /\ parsed' = ExpressionParseCtx(text, pctx)
  /\ pc' = "expression"
  /\ UNCHANGED <<text, pctx, ectx, result, opin, opout, cmp, lex>>

\* Expression::eval(): let ctx = Context::new(); self.eval_ctx(&ctx)
ExpressionEval ==
  /\ pc = "expression"
  /\ parsed.ok
  /\ ectx' = ContextNew
  /\ result' = eval_ctx(parsed.v, ContextNew, MaxDepth)
  /\ opin' = [NoOpIn EXCEPT !.fn = "Expression::eval"]
  /\ pc' = "evaluated"
  /\ UNCHANGED <<text, pctx, stages, parsed, opout, cmp, lex>>

\* Expression::eval_ctx(ctx): self.term.eval(ctx)
ExpressionEvalCtx ==
  /\ pc = "expression"
  /\ parsed.ok
  /\ \E ctx \in {c \in EvalContexts \cup {pctx} : typename(c) = typename(pctx)} :
       /\ ectx' = ctx
       /\ result' = eval_ctx(parsed.v, ctx, MaxDepth)
  /\ opin' = [NoOpIn EXCEPT !.fn = "Expression::eval_ctx"]
  /\ pc' = "evaluated"
  /\ UNCHANGED <<text, pctx, stages, parsed, opout, cmp, lex>>

InitNeg == InitWith(NegTexts, ParseContexts)

SpecNeg == InitNeg /\ [][Next]_vars

InitArgs == InitWith(ArgsTexts, ParseContexts)

SpecArgs == InitArgs /\ [][Next]_vars

InitArity == InitWith(ArityTexts, {ContextNew})

SpecArity == InitArity /\ [][Next]_vars

InitExpression == InitWith(ExpressionTexts, ParseContexts)

NextExpression == ExpressionParse \/ ExpressionEval \/ ExpressionEvalCtx

SpecExpression == InitExpression /\ [][NextExpression]_vars

\* self.tryord(&other, ctx) of two f64 with the context pctx.
Tryord ==
  /\ pc = "start"
  /\ \E self \in OrdValues, other \in OrdValues :
       /\ opin' = [fn |-> "tryord", self |-> Single(self), other |-> Single(other),
                   oper |-> "tryord", ctx |-> pctx]
       /\ cmp' = tryord(self, other, pctx)
  /\ pc' = "compared"
  /\ UNCHANGED <<text, pctx, stages, parsed, ectx, result, opout, lex>>

InitOrd == InitWith(OpTexts, OpContexts)

NextOrd == Tryord

SpecOrd == InitOrd /\ [][NextOrd]_vars

InitAnswer == InitWith(OpTexts, OpContexts)

NextAnswer == Parse \/ Eval \/ ApplyOp \/ ApplyUnop

SpecAnswer == InitAnswer /\ [][NextAnswer]_vars

(***************************************************************************)
(* Precedence and associativity.                                           *)
(***************************************************************************)
\* The nesting depth of the parentheses of s before position i.
RECURSIVE DepthBefore(_, _)
DepthBefore(s, i) ==
  IF i <= 1 THEN 0
  ELSE DepthBefore(s, i - 1)
         + (IF s[i - 1] = "(" THEN 1 ELSE IF s[i - 1] = ")" THEN -1 ELSE 0)

\* The positions of s outside every parenthesis that hold one of ops.
TopLevel(s, ops) == {i \in 1..Len(s) : s[i] \in ops /\ DepthBefore(s, i) = 0}

SetMax(S) == CHOOSE m \in S : \A n \in S : n <= m

\* A rational <<n, d>>; d = 0 marks a division by zero.
Undefined == <<0, 0>>

Combine(op, l, r) ==
  IF l[2] = 0 \/ r[2] = 0 THEN Undefined
  ELSE CASE op = "+" -> <<l[1] * r[2] + r[1] * l[2], l[2] * r[2]>>
         [] op = "-" -> <<l[1] * r[2] - r[1] * l[2], l[2] * r[2]>>
         [] op = "*" -> <<l[1] * r[1], l[2] * r[2]>>
         [] op = "/" -> IF r[1] = 0 THEN Undefined ELSE <<l[1] * r[2], l[2] * r[1]>>

LitValue(c) == CASE c = "2" -> 2 [] c = "3" -> 3

\* The value of an arithmetic text by the standard rules: a sum or difference
\* splits at its last + or - outside parentheses, else a product or
\* quotient at its last * or /, else the text is a group or a literal.
RECURSIVE StandardValue(_)
StandardValue(s) ==
  LET adds == TopLevel(s, {"+", "-"})
      muls == TopLevel(s, {"*", "/"})
      at == IF adds # {} THEN SetMax(adds) ELSE SetMax(muls)
  IN IF adds # {} \/ muls # {}
     THEN Combine(s[at], StandardValue(SubSeq(s, 1, at - 1)),
                  StandardValue(SubSeq(s, at + 1, Len(s))))
     ELSE IF s[1] = "(" THEN StandardValue(SubSeq(s, 2, Len(s) - 1))
     ELSE <<LitValue(s[1]), 1>>

SameValue(v, q) == v.k = "fin" /\ v.n * q[2] = q[1] * v.d

\* C1: every text built from literals, + - * / and parentheses parses, and
\* the value of its tree is the value of the text by standard precedence
\* (parentheses first, then * and / left to right, then + and - left to
\* right); a division by zero in it is the error DivideByZero.  The text
\* "(3 * (17.8 - 4) ^ 2) / 7" evaluates to 14283/175 (about 81.617).
C1_StandardPrecedence ==
  /\ text \in ArithTexts /\ pc # "start" => parsed.ok
  /\ text \in ArithTexts /\ pc = "evaluated" =>
       IF StandardValue(text)[2] # 0
       THEN /\ result.ok
            /\ result.ans.k = "Single"
            /\ SameValue(result.ans.vals[1], StandardValue(text))
       ELSE result = CalcErr(DivideByZero)
  /\ text = TextBasic /\ pc = "evaluated" =>
       result = CalcOk(Single(Fin(14283, 175)))

\* "2+3*2" has been evaluated to 8.
C1_Witness ==
  /\ pc = "evaluated"
  /\ text = <<"2", "+", "3", "*", "2">>
  /\ result = CalcOk(Single(Int2Num(8)))

\* C2: for all operands a, b, c (a literal, a variable, a group, a function
\* call) the text "a^b^c" compiles to Pow(a, Pow(b, c)), and "2 ^ 3 ^ 2"
\* evaluates to 512.
C2_PowRightAssociative ==
  /\ pc # "start" =>
       \A a \in PowOperands, b \in PowOperands, c \in PowOperands :
         text = PowChain(a, b, c) =>
           parsed = OkTerm(TermOperation("Pow",
                      <<parse_ctx(a, pctx).v,
                        TermOperation("Pow", <<parse_ctx(b, pctx).v,
                                               parse_ctx(c, pctx).v>>)>>))
  /\ text = TextPow /\ pc = "evaluated" => result = CalcOk(Single(Int2Num(512)))

\* "2 ^ 3 ^ 2" has been evaluated to 512.
C2_Witness ==
  /\ pc = "evaluated"
  /\ text = TextPow
  /\ parsed.v.args[2].name = "Pow"
  /\ result = CalcOk(Single(Int2Num(512)))

(***************************************************************************)
(* Implicit multiplication.                                                *)
(***************************************************************************)
\* The text t with a '*' put before its character i.
StarBefore(t, i) == Take(t, i - 1) \o <<"*">> \o Drop(t, i - 1)

\* e2 is e1 with one multiplication put between two adjacent operands of
\* e1, at the top or inside one subexpression or argument.
RECURSIVE MulBetween(_, _)
MulBetween(e1, e2) ==
  \/ /\ Len(e2) = Len(e1) + 1
     /\ \E i \in 1..(Len(e1) - 1) :
          /\ is_operand(e1[i])
          /\ is_operand(e1[i + 1])
          /\ e2 = Take(e1, i) \o <<ExOp(InOp("Mul"))>> \o Drop(e1, i)
  \/ /\ Len(e2) = Len(e1)
     /\ \E i \in 1..Len(e1) :
          /\ \A j \in 1..Len(e1) : j # i => e1[j] = e2[j]
          /\ e1[i].k = e2[i].k
          /\ e1[i].name = e2[i].name
          /\ \/ e1[i].k = "Sub" /\ MulBetween(e1[i].sub, e2[i].sub)
             \/ /\ e1[i].k = "Func"
                /\ Len(e1[i].args) = Len(e2[i].args)
                /\ \E a \in 1..Len(e1[i].args) :
                     /\ \A b \in 1..Len(e1[i].args) :
                          b # a => e1[i].args[b] = e2[i].args[b]
                     /\ MulBetween(e1[i].args[a], e2[i].args[a])

\* C3: with implicit multiplication enabled, a text with two adjacent
\* operand nodes (literal, variable, function call, group) compiles to the
\* tree of the text with an explicit '*' between the two nodes, and
\* "3(x * -(3 + 1))" with x = 2 evaluates to -24.
C3_ImplicitMultiplication ==
  /\ pc # "start" /\ pctx.cfg.implicit_multiplication
       /\ stages.reached = "postfix_to_term" =>
       \A i \in 2..Len(text) :
         LET explicit == ParseStages(StarBefore(text, i), pctx)
         IN explicit.reached = "postfix_to_term"
              /\ MulBetween(stages.exprs, explicit.exprs) =>
              parsed = parse_ctx(StarBefore(text, i), pctx)
  /\ text = TextFunky /\ pc = "evaluated" /\ pctx.cfg.implicit_multiplication
       /\ contains_key(ectx.vars, "x") =>
       result = CalcOk(Single(Int2Num(-24)))

\* "3(x * -(3 + 1))" has been compiled with implicit multiplication and
\* evaluated with x = 2.
C3_Witness ==
  /\ pc = "evaluated"
  /\ text = TextFunky
  /\ pctx.cfg.implicit_multiplication
  /\ parsed.v.name = "Mul"
  /\ contains_key(ectx.vars, "x")
  /\ result = CalcOk(Single(Int2Num(-24)))

\* Some two adjacent nodes of es, at the top or inside a subexpression or
\* an argument, are operands.
RECURSIVE HasAdjacency(_)
HasAdjacency(es) ==
  \/ \E i \in 1..(Len(es) - 1) : is_operand(es[i]) /\ is_operand(es[i + 1])
  \/ \E i \in 1..Len(es) :
       \/ es[i].k = "Sub" /\ HasAdjacency(es[i].sub)
       \/ es[i].k = "Func" /\ \E a \in 1..Len(es[i].args) : HasAdjacency(es[i].args[a])

\* C4: with implicit multiplication disabled, a text with two adjacent
\* operand nodes and no operator between them is rejected by parse_ctx.
C4_AdjacencyRejected ==
  pc # "start" /\ ~pctx.cfg.implicit_multiplication
    /\ stages.reached = "postfix_to_term" /\ HasAdjacency(stages.exprs)
    => ~parsed.ok

\* The nesting depth of the parentheses after token i of tokens.
RECURSIVE DepthAfter(_, _)
DepthAfter(tokens, i) ==
  IF i = 0 THEN 0
  ELSE DepthAfter(tokens, i - 1)
         + (IF tokens[i].k = "Paren"
            THEN (IF tokens[i].paren = "Open" THEN 1 ELSE -1)
            ELSE 0)

\* C5: a token stream whose nesting depth goes negative at some point or is
\* not zero at its end fails to parse, with MismatchedParentheses.
C5_MismatchedParentheses ==
  pc # "start" /\ stages.reached # "to_tokens"
    /\ (\/ \E i \in 1..Len(stages.tokens) : DepthAfter(stages.tokens, i) < 0
        \/ DepthAfter(stages.tokens, Len(stages.tokens)) # 0)
    => parsed = FailTerm(MismatchedParentheses)

(***************************************************************************)
(* Names: functions and variables.                                         *)
(***************************************************************************)
\* The name at p[i] is followed by a group and is a function: implicit
\* multiplication is disabled or the function table has the name.
CallAt(p, i, ctx) ==
  /\ p[i].k = "Name"
  /\ i < Len(p)
  /\ p[i + 1].k = "Sub"
  /\ (~ctx.cfg.implicit_multiplication \/ p[i].name \in DOMAIN ctx.funcs)

RECURSIVE ConcatAll(_)
ConcatAll(ss) == IF ss = <<>> THEN <<>> ELSE Head(ss) \o ConcatAll(Tail(ss))

\* The positions of the commas of p and its two ends, in order.
RECURSIVE Ascending(_)
Ascending(S) ==
  IF S = {} THEN <<>>
  ELSE LET m == CHOOSE x \in S : \A y \in S : x <= y
       IN <<m>> \o Ascending(S \ {m})

Cuts(p) == Ascending({0, Len(p) + 1} \cup {i \in 1..Len(p) : p[i].k = "Comma"})

\* A comma outside the arguments of a function.
StrayComma == MkExpr("Comma", Int2Num(0), NoOp, "", <<>>, <<>>)

\* The nodes of the paren tokens p by the rule of the names: a name followed
\* by a group is a function call when CallAt, and the group its arguments;
\* every other name is a variable and every other group a subexpression.
RECURSIVE Resolve(_, _)
Resolve(p, ctx) ==
  ConcatAll([i \in 1..Len(p) |->
    CASE p[i].k = "Num" -> <<ExNum(p[i].num)>>
      [] p[i].k = "Op" -> <<ExOp(p[i].op)>>
      [] p[i].k = "Comma" -> <<StrayComma>>
      [] p[i].k = "Name" ->
           IF CallAt(p, i, ctx)
           THEN LET group == p[i + 1].sub
                    cuts == Cuts(group)
                    segments == [k \in 1..(Len(cuts) - 1) |->
                                   SubSeq(group, cuts[k] + 1, cuts[k + 1] - 1)]
                    given == SelectSeq(segments, LAMBDA seg : seg # <<>>)
                IN <<ExFunc(p[i].name,
                            [k \in 1..Len(given) |-> Resolve(given[k], ctx)])>>
           ELSE <<ExVar(p[i].name)>>
      [] p[i].k = "Sub" ->
           IF i > 1 /\ CallAt(p, i - 1, ctx) THEN <<>>
           ELSE <<ExSub(Resolve(p[i].sub, ctx))>>])

RECURSIVE HasStrayComma(_)
HasStrayComma(es) ==
  \E i \in 1..Len(es) :
    \/ es[i] = StrayComma
    \/ es[i].k = "Sub" /\ HasStrayComma(es[i].sub)
    \/ es[i].k = "Func" /\ \E a \in 1..Len(es[i].args) : HasStrayComma(es[i].args[a])

C7_UnboundAtEvaluation ==
  /\ pc # "start" =>
       /\ parsed = parse_ctx(text, [pctx EXCEPT !.vars = EmptyMap])
       /\ text = TextUnbound =>
            parsed = OkTerm(TermOperation("Mul", <<TermNum(Single(Int2Num(2))),
                                                   TermVar("y")>>))
  /\ pc = "evaluated" =>
       /\ text = TextUnbound => result = CalcErr(UndefinedVariable("y"))
       /\ parsed.v.k = "Var" /\ ~contains_key(ectx.vars, parsed.v.name) =>
            result = CalcErr(UndefinedVariable(parsed.v.name))
       /\ parsed.v.k = "Function" /\ ~contains_key(ectx.funcs, parsed.v.name) =>
            result = CalcErr(UndefinedFunction(parsed.v.name))

\* "2 * y" has been parsed and evaluated.
C7_Witness ==
  /\ pc = "evaluated"
  /\ text = TextUnbound
  /\ parsed.ok
  /\ result = CalcErr(UndefinedVariable("y"))

(***************************************************************************)
(* Answer::op and Answer::unop.                                            *)
(***************************************************************************)
\* The applications of the closure a call makes when none fails, in order:
\* for op every pair of a value of self and a value of other, the values of
\* self outermost; for unop every value of self.
Applications(call) ==
  IF call.fn = "op"
  THEN [k \in 1..(Len(call.self.vals) * Len(call.other.vals)) |->
          NumOp2(call.oper,
                 call.self.vals[((k - 1) \div Len(call.other.vals)) + 1],
                 call.other.vals[((k - 1) % Len(call.other.vals)) + 1],
                 call.ctx)]
  ELSE [k \in 1..Len(call.self.vals) |-> NumOp1(call.oper, call.self.vals[k], call.ctx)]

AllOk(apps) == \A k \in 1..Len(apps) : apps[k].ok

\* The values of the answers of the applications, in order.
RECURSIVE Values(_)
Values(apps) == IF apps = <<>> THEN <<>> ELSE Head(apps).ans.vals \o Values(Tail(apps))

\* C8: when no application fails, op of two Singles is the result of the
\* one application, and every other op is the Multiple of the values of
\* op(ai, bj) for i outer and j inner, each sub-result flattened in place
\* and nothing removed: m * n values for a single-valued operation.  A
\* Single with a Multiple applies the operation to the single value and each
\* element in order.  "sqrt(4) + 1" with both roots enabled is
\* Multiple([3, -1]).
C8_OrderedCrossProduct ==
  /\ pc = "applied" /\ opin.fn = "op" /\ AllOk(Applications(opin)) =>
       IF opin.self.k = "Single" /\ opin.other.k = "Single"
       THEN opout = Applications(opin)[1]
       ELSE /\ opout = CalcOk(Multiple(Values(Applications(opin))))
            /\ Len(opout.ans.vals) = Len(opin.self.vals) * Len(opin.other.vals)
  /\ pc = "evaluated" /\ text = TextRoots /\ ectx.cfg.sqrt_both
       /\ contains_key(ectx.funcs, "sqrt") =>
       result = CalcOk(Multiple(<<Int2Num(3), Int2Num(-1)>>))

\* Multiple([2, 0]) + Multiple([0, 2]) has been computed: four sums, the
\* repeated one kept.
C8_Witness ==
  /\ pc = "applied"
  /\ opin.fn = "op"
  /\ opin.oper = "add"
  /\ opin.self = Multiple(<<Int2Num(2), Int2Num(0)>>)
  /\ opin.other = Multiple(<<Int2Num(0), Int2Num(2)>>)
  /\ opout = CalcOk(Multiple(<<Int2Num(2), Int2Num(4), Int2Num(0), Int2Num(2)>>))

\* C9: every Multiple that Answer::op or Answer::unop returns, and every
\* Multiple a term evaluates to, holds at least two values.
C9_MultipleHoldsTwo ==
  /\ pc = "applied" /\ opout.ok /\ opout.ans.k = "Multiple" =>
       Len(opout.ans.vals) >= 2
  /\ pc = "evaluated" /\ result.ok /\ result.ans.k = "Multiple" =>
       Len(result.ans.vals) >= 2

\* C10: when an application of the closure fails, op and unop return the
\* error of the first application that fails, and no Multiple; they
\* succeed when none fails.
C10_FailFast ==
  pc = "applied" =>
    LET apps == Applications(opin)
    IN IF AllOk(apps) THEN opout.ok
       ELSE \E k \in 1..Len(apps) :
              /\ ~apps[k].ok
              /\ \A j \in 1..(k - 1) : apps[j].ok
              /\ opout = CalcErr(apps[k].err)

\* Single(4) / Multiple([1, 0]) has failed with DivideByZero at the second
\* application.
C10_Witness ==
  /\ pc = "applied"
  /\ opin.fn = "op"
  /\ opin.oper = "div"
  /\ opin.self = Single(Int2Num(4))
  /\ opin.other = Multiple(<<Int2Num(1), Int2Num(0)>>)
  /\ opout = CalcErr(DivideByZero)

(***************************************************************************)
(* Division, percent and factorial.                                        *)
(***************************************************************************)
\* A zero of the numeric type.
IsZero(n) ==
  IF n.k = "complex" THEN n.r = Int2Num(0) /\ n.i = Int2Num(0) ELSE n = Int2Num(0)

\* C11: a division whose operands evaluate and whose divisor evaluates to
\* zero yields DivideByZero, with f64 and with ComplexFloat.
C11_DivideByZero ==
  /\ pc = "evaluated" /\ typename(ectx) \in {"f64", "ComplexFloat"}
  /\ parsed.v.k = "Operation" /\ parsed.v.name = "Div"
  =>
    LET a == eval_ctx(parsed.v.args[1], ectx, MaxDepth)
        b == eval_ctx(parsed.v.args[2], ectx, MaxDepth)
    IN a.ok /\ b.ok /\ (\E j \in 1..Len(b.ans.vals) : IsZero(b.ans.vals[j])) =>
         result = CalcErr(DivideByZero)

\* C14: the percent of an operand that evaluates is the operand times 0.01,
\* value by value; "50%" is 0.5.
C14_PercentOfOperand ==
  /\ pc = "evaluated" /\ parsed.v.k = "Operation" /\ parsed.v.name = "Percent" =>
       LET a == eval_ctx(parsed.v.args[1], ectx, MaxDepth)
       IN a.ok => result = AnswerOp(a.ans, from_f64(Fin(1, 100), ectx), "mul", ectx)
  /\ pc = "evaluated" /\ text = TextPercent /\ typename(ectx) = "f64" =>
       result = CalcOk(Single(Fin(1, 2)))

\* C15: the evaluation of a parsed tree, one with a factorial included,
\* returns an Answer or a MathError.
C15_ErrorsAreValues ==
  pc = "evaluated" => result.ok \/ result.err.k \in MathErrorKinds

(***************************************************************************)
(* The operations a numeric type does not support.                         *)
(***************************************************************************)
\* The methods of Num that ComplexFloat and ComplexRugRat give no result of
\* their own for.
UnsupportedOps == DOMAIN DefaultOps \ {"tryord", "add", "sub", "mul", "div"}

\* The operation of Num the top of the tree t applies to its evaluated
\* operands, "" when it applies none.
TopOperation(t, ctx) ==
  CASE t.k = "Operation" /\ t.name \in DOMAIN BinaryOpers -> BinaryOpers[t.name]
    [] t.k = "Function" /\ contains_key(ctx.funcs, t.name) ->
         LET func == ctx.funcs[t.name]
         IN CASE func \in DOMAIN UnaryFuncs /\ Len(t.args) = 1 -> UnaryFuncs[func]
              [] func \in DOMAIN BinaryFuncs /\ Len(t.args) = 2 -> BinaryFuncs[func]
              [] OTHER -> ""
    [] OTHER -> ""

OperandsOk(t, ctx) ==
  \A j \in 1..Len(t.args) : eval_ctx(t.args[j], ctx, MaxDepth).ok

\* C16: with ComplexFloat and with ComplexRugRat, an operation the type does
\* not support, applied to operands that evaluate, returns Unimplemented with
\* the name of the operation and of the type.
C16_UnsupportedOperation ==
  /\ pc = "evaluated" /\ typename(ectx) \in {"ComplexFloat", "ComplexRugRat"}
  /\ TopOperation(parsed.v, ectx) \in UnsupportedOps
  /\ OperandsOk(parsed.v, ectx)
  => result = CalcErr(Unimplemented(DefaultOps[TopOperation(parsed.v, ectx)],
                                   typename(ectx)))

\* C17: no operation of Num applied to f64 values returns Unimplemented.
C17_F64Complete ==
  /\ pc = "applied" /\ typename(opin.ctx) = "f64"
  /\ opin.oper \in DOMAIN DefaultOps
  => opout.ok \/ opout.err.k # "Unimplemented"

(***************************************************************************)
(* The order of f64.                                                       *)
(***************************************************************************)
\* The order of two finite values as rationals.
NaturalOrder(a, b) ==
  CASE a.n * b.d < b.n * a.d -> "Less"
    [] a.n * b.d > b.n * a.d -> "Greater"
    [] OTHER -> "Equal"

\* C18: tryord of two f64 is CmpError when either is NaN and an ordering
\* otherwise: Equal for two infinities of one sign, Less for a finite value and
\* +inf, Greater for a finite value and -inf, the natural order for two finite
\* values, and the reverse of the ordering of the operands swapped.
C18_TryordOfF64 ==
  pc = "compared" =>
    LET a == opin.self.vals[1]
        b == opin.other.vals[1]
        back == tryord(b, a, opin.ctx)
    IN /\ ~cmp.ok <=> is_nan(a) \/ is_nan(b)
       /\ ~cmp.ok => cmp.err = CmpError
       /\ cmp.ok =>
            /\ a = PInf /\ b = PInf => cmp.ord = "Equal"
            /\ a = NInf /\ b = NInf => cmp.ord = "Equal"
            /\ IsFin(a) /\ b = PInf => cmp.ord = "Less"
            /\ IsFin(a) /\ b = NInf => cmp.ord = "Greater"
            /\ IsFin(a) /\ IsFin(b) => cmp.ord = NaturalOrder(a, b)
            /\ back.ok
            /\ cmp.ord = (CASE back.ord = "Less" -> "Greater"
                             [] back.ord = "Greater" -> "Less"
                             [] back.ord = "Equal" -> "Equal")

\* A finite value has been compared with +inf and found Less.
C18_Witness ==
  /\ pc = "compared" /\ IsFin(opin.self.vals[1]) /\ opin.other.vals[1] = PInf
  /\ cmp = OrdOk("Less")

(***************************************************************************)
(* Evaluation with variables bound to terms that name variables.           *)
(***************************************************************************)
\* C19: the evaluation of a tree with any context, one whose variables refer
\* to themselves or to each other included, returns an Answer or a MathError
\* and does not run out of stack.
C19_EvaluationTerminates ==
  pc = "evaluated" =>
    /\ result # CalcErr(StackOverflow)
    /\ result.ok \/ result.err.k \in MathErrorKinds

(***************************************************************************)
(* The builtins of Context::new().                                         *)
(***************************************************************************)
\* The constants and the functions the documentation of Context lists.
DocumentedConstants == {"pi", "e", "i"}
DocumentedFunctions ==
  {"sin", "cos", "tan", "asin", "acos", "atan", "atant", "floor", "ceil",
   "round", "sqrt", "max", "min"}

\* C20: the context of Context::new() binds every documented constant and has
\* every documented function in its table, and a call of one of them, as
\* "ceil(2)", parses to a function call and evaluates without an error of an
\* undefined name.
C20_DocumentedBuiltins ==
  /\ pc = "parsed" =>
       /\ DocumentedConstants \subseteq DOMAIN pctx.vars
       /\ DocumentedFunctions \subseteq DOMAIN pctx.funcs
       /\ text = TextCeil => parsed.ok /\ parsed.v.k = "Function"
  /\ pc = "evaluated" /\ text = TextCeil /\ ectx = pctx =>
       result.ok \/ result.err.k \notin {"UndefinedVariable", "UndefinedFunction"}

(***************************************************************************)
(* Expression and the context of its parse.                                *)
(***************************************************************************)
\* C21: eval() of an Expression parsed with parse_ctx evaluates the term with
\* the context of the parse; "sum(4, 5, 6) / 3", parsed with a context that
\* defines sum, evaluates to 5.
C21_StoredContext ==
  pc = "evaluated" /\ opin.fn = "Expression::eval" =>
    /\ result = eval_ctx(parsed.v, pctx, MaxDepth)
    /\ text = TextSum => result = CalcOk(Single(Int2Num(5)))

(***************************************************************************)
(* The number of arguments of the builtins.                                *)
(***************************************************************************)
\* n is not a number of arguments the builtin func takes.
WrongArity(func, n) ==
  CASE func \in {"Nrt", "Atan2", "Log"} -> n # 2
    [] func \in {"Max", "Min"} -> n = 0
    [] OTHER -> n # 1

\* C22: a call of a builtin with a number of arguments it does not take
\* evaluates to IncorrectArguments, whatever the arguments are.
C22_IncorrectArguments ==
  /\ pc = "evaluated" /\ parsed.v.k = "Function"
  /\ contains_key(ectx.funcs, parsed.v.name)
  /\ ectx.funcs[parsed.v.name] \in DOMAIN UnaryFuncs \cup DOMAIN BinaryFuncs \cup {"Max", "Min"}
  /\ WrongArity(ectx.funcs[parsed.v.name], Len(parsed.v.args))
  => result = CalcErr(IncorrectArguments)

\* A builtin of one argument has been called with two, the first of them an
\* unbound variable, and IncorrectArguments is the result.
C22_Witness ==
  /\ pc = "evaluated" /\ parsed.v.k = "Function"
  /\ contains_key(ectx.funcs, parsed.v.name)
  /\ ectx.funcs[parsed.v.name] \in DOMAIN UnaryFuncs
  /\ Len(parsed.v.args) = 2
  /\ eval_ctx(parsed.v.args[1], ectx, MaxDepth) = CalcErr(UndefinedVariable("y"))
  /\ result = CalcErr(IncorrectArguments)

(***************************************************************************)
(* Negation after an infix operator.                                       *)
(***************************************************************************)
NoSpaces(t) == SelectSeq(t, LAMBDA ch : ch # " ")

\* The term of an operand of NegOperands and the struct of an infix operator.
OperandTerm(ch) ==
  CASE ch = "x" -> TermVar("x")
    [] ch = "2" -> TermNum(Single(Int2Num(2)))
    [] ch = "3" -> TermNum(Single(Int2Num(3)))
InfixStruct(ch) ==
  CASE ch = "+" -> "Add" [] ch = "-" -> "Sub" [] ch = "*" -> "Mul"
    [] ch = "/" -> "Div" [] ch = "^" -> "Pow"

NegPow(b, c) == TermOperation("Neg", <<TermOperation("Pow", <<b, c>>)>>)

\* C23: "a op -b ^ c", with op an infix operator, parses to a op (-(b ^ c));
\* "2 * 8.5 + -9" evaluates to 8, and "sin(pi)--5 ^ 2" to sin(pi) - (-(5 ^ 2)),
\* whose right operand is -25.
C23_NegationOfPower ==
  /\ pc = "parsed" /\ text \in NegTexts \ {TextPlain, TextPlainPow} =>
       LET t == NoSpaces(text)
       IN parsed = OkTerm(TermOperation(InfixStruct(t[2]),
                            <<OperandTerm(t[1]), NegPow(OperandTerm(t[4]), OperandTerm(t[6]))>>))
  /\ pc = "evaluated" /\ text = TextPlain /\ ectx = pctx =>
       result = CalcOk(Single(Int2Num(8)))
  /\ pc = "evaluated" /\ text = TextPlainPow /\ ectx = pctx =>
       /\ parsed.v = TermOperation("Sub",
                       <<TermFunction("sin", <<TermVar("pi")>>),
                         NegPow(TermNum(Single(Int2Num(5))), TermNum(Single(Int2Num(2))))>>)
       /\ eval_ctx(parsed.v.args[2], ectx, MaxDepth) = CalcOk(Single(Int2Num(-25)))
       /\ result.ok

\* "2 - -3 ^ 2" has been parsed and evaluated to 2 - (-(3 ^ 2)) = 11.
C23_Witness ==
  /\ pc = "evaluated" /\ NoSpaces(text) = <<"2", "-", "-", "3", "^", "2">>
  /\ ectx = pctx
  /\ result = CalcOk(Single(Int2Num(11)))

(***************************************************************************)
(* The lexer, one call of next_token at a time.                            *)
(***************************************************************************)
\* next_token has been called, on lex.seen after lex.last.
Stepped == pc \in {"lexing", "failed"} /\ lex.seen # <<>>

\* The first character of lex.seen that is not whitespace.
SeenChar == SkipWhitespace(lex.seen)[1]

\* The token the latest call of next_token returned.
NewToken == lex.tokens[Len(lex.tokens)]

\* Start of input, an open parenthesis, a comma, an infix or a prefix operator.
OperandPosition(last) ==
  \/ last = NoToken
  \/ last = TokParen("Open")
  \/ last = TokComma
  \/ last.k = "Op" /\ last.op.fix \in {"In", "Pre"}

\* The characters a name, a numeric literal, a prefix operator or an open
\* parenthesis starts with.
IntroducesOperand(c) ==
  is_alphabetic(c) \/ c = "_" \/ is_digit(c) \/ c \in {"-", "+", "("}

IsOperandIntroducer(tok) ==
  \/ tok.k \in {"Name", "Num"}
  \/ tok.k = "Op" /\ tok.op.fix = "Pre"
  \/ tok = TokParen("Open")

\* C24 as stated: where an operand is due, the lexer returns a name, a
\* number, a prefix operator or an open parenthesis, and fails with
\* UnexpectedToken of the character on anything else, a close parenthesis
\* included.
C24_OperandIntroducersOnly ==
  Stepped /\ OperandPosition(lex.last) =>
    IF IntroducesOperand(SeenChar)
    THEN pc = "lexing" /\ IsOperandIntroducer(NewToken)
    ELSE pc = "failed" /\ lex.err = UnexpectedToken(SeenChar)

\* C24 as amended: where an operand is due, the lexer returns a name, a
\* number, a prefix operator or a parenthesis, open or close, and fails with
\* UnexpectedToken of the character on anything else.
C24_OperandOrCloseParen ==
  Stepped /\ OperandPosition(lex.last) =>
    CASE IntroducesOperand(SeenChar) -> pc = "lexing" /\ IsOperandIntroducer(NewToken)
      [] SeenChar = ")" -> pc = "lexing" /\ NewToken = TokParen("Close")
      [] OTHER -> pc = "failed" /\ lex.err = UnexpectedToken(SeenChar)

\* After an infix operator the lexer has met '*' and failed on it.
C24_Witness ==
  /\ pc = "failed" /\ lex.last = TokOp(InOp("Mul")) /\ SeenChar = "*"
  /\ lex.err = UnexpectedToken("*")

\* C25: the lexer turns a '-' into the infix Sub after a number, a name, a
\* close parenthesis or a postfix operator, into the prefix Neg in every
\* other position, and consumes that character alone; no token is a negative
\* number.
C25_MinusIsAnOperator ==
  /\ Stepped /\ SeenChar = "-" =>
       /\ pc = "lexing"
       /\ NewToken = (IF OperandPosition(lex.last) THEN TokOp(PreOp("Neg"))
                      ELSE TokOp(InOp("Sub")))
       /\ lex.raw = Tail(SkipWhitespace(lex.seen))
  /\ \A j \in 1..Len(lex.tokens) :
       lex.tokens[j].k = "Num" => lex.tokens[j].num.n >= 0

\* A '-' has been lexed as Sub after a number and the next one as Neg.
C25_Witness ==
  /\ Stepped /\ Len(lex.tokens) = 3
  /\ lex.tokens[1].k = "Num"
  /\ lex.tokens[2] = TokOp(InOp("Sub"))
  /\ lex.tokens[3] = TokOp(PreOp("Neg"))

(***************************************************************************)
(* The stack of postfix_to_term.                                           *)
(***************************************************************************)
\* What the stack of operands makes of the postfix stream raw from raw[i] on,
\* with h items on it: "Expression" when an operator finds too few items or
\* none is left at the end, "Operator" when more than one is left, "" when
\* exactly one is; a sub-group and the arguments of a call are streams of
\* their own.
RECURSIVE StackOutcome(_, _, _)
RECURSIVE FirstFailure(_, _)
FirstFailure(streams, j) ==
  IF j > Len(streams) THEN ""
  ELSE IF StackOutcome(streams[j], 1, 0) # "" THEN StackOutcome(streams[j], 1, 0)
  ELSE FirstFailure(streams, j + 1)
StackOutcome(raw, i, h) ==
  IF i > Len(raw)
  THEN (CASE h > 1 -> "Operator" [] h = 1 -> "" [] OTHER -> "Expression")
  ELSE CASE raw[i].k \in {"Num", "Var"} -> StackOutcome(raw, i + 1, h + 1)
         [] raw[i].k = "Op" /\ raw[i].op.fix = "In" ->
              IF h < 2 THEN "Expression" ELSE StackOutcome(raw, i + 1, h - 1)
         [] raw[i].k = "Op" /\ raw[i].op.fix # "In" ->
              IF h < 1 THEN "Expression" ELSE StackOutcome(raw, i + 1, h)
         [] raw[i].k = "Sub" ->
              IF StackOutcome(raw[i].sub, 1, 0) # "" THEN StackOutcome(raw[i].sub, 1, 0)
              ELSE StackOutcome(raw, i + 1, h + 1)
         [] raw[i].k = "Func" ->
              IF FirstFailure(raw[i].args, 1) # "" THEN FirstFailure(raw[i].args, 1)
              ELSE StackOutcome(raw, i + 1, h + 1)

\* C26: postfix_to_term fails with Expected{Expression} when an operator
\* lacks an operand or the stack ends empty, with Expected{Operator} when
\* more than one item is left, and returns a tree when exactly one is; the
\* empty text and "()" fail with Expected{Expression}.
C26_StackOfOperands ==
  /\ pc = "parsed" /\ stages.reached = "postfix_to_term" =>
       LET o == StackOutcome(stages.postfix, 1, 0)
       IN IF o = "" THEN parsed.ok ELSE parsed = FailTerm(Err("Expected", o))
  /\ pc = "parsed" /\ text \in {<<>>, <<"(", ")">>} =>
       parsed = FailTerm(ExpectedExpression)

\* Two operands with no operator between them have been left on the stack.
C26_Witness ==
  /\ pc = "parsed" /\ stages.reached = "postfix_to_term"
  /\ Len(stages.postfix) = 2
  /\ parsed = FailTerm(ExpectedOperator)

(***************************************************************************)
(* The arguments of a call.                                                *)
(***************************************************************************)
\* The pieces of the group between its commas, the empty ones left out.
Segments(group) ==
  LET cuts == Cuts(group)
  IN SelectSeq([k \in 1..(Len(cuts) - 1) |-> SubSeq(group, cuts[k] + 1, cuts[k + 1] - 1)],
               LAMBDA seg : seg # <<>>)

OperandsOf(es) == SelectSeq(es, is_operand)
CountOf(es, e) == Cardinality({j \in 1..Len(es) : es[j] = e})

\* The postfix stream out has the nodes of the infix stream in, each once:
\* the operands in their order, every operator as many times as in has it, and
\* the same of every sub-group and of every argument of a call.
RECURSIVE SameNodes(_, _)
SameNodes(in, out) ==
  /\ Len(out) = Len(in)
  /\ \A j \in 1..Len(in) : ~is_operand(in[j]) => CountOf(out, in[j]) = CountOf(in, in[j])
  /\ Len(OperandsOf(out)) = Len(OperandsOf(in))
  /\ \A j \in 1..Len(OperandsOf(in)) :
       LET a == OperandsOf(in)[j]
           b == OperandsOf(out)[j]
       IN CASE a.k = "Sub" -> b.k = "Sub" /\ SameNodes(a.sub, b.sub)
            [] a.k = "Func" ->
                 /\ b.k = "Func" /\ b.name = a.name /\ Len(b.args) = Len(a.args)
                 /\ \A k \in 1..Len(a.args) : SameNodes(a.args[k], b.args[k])
            [] OTHER -> b = a

\* C28: at every level tokenexprs_to_postfix outputs the nodes of its input,
\* each once, with the operands in their order and the operators of a
\* sub-group or of an argument inside it.
C28_SameNodes ==
  pc = "parsed" /\ stages.reached = "postfix_to_term" =>
    SameNodes(stages.inserted, stages.postfix)

\* The text of the test basic, whose groups hold operators, has been
\* linearized.
C28_Witness ==
  /\ pc = "parsed" /\ text = TextBasic
  /\ stages.reached = "postfix_to_term"
  /\ stages.postfix # stages.inserted
  /\ stages.postfix[1].k = "Sub" /\ stages.postfix[1].sub # stages.inserted[1].sub

\* C29: every turn of the loop of to_tokens that returns a token leaves less
\* of the text than it found and adds that one token; a turn that fails
\* reports UnexpectedToken and adds none; the loop ends on the empty rest, and
\* nothing follows a failure.
C29_LexerAdvances ==
  [][((pc = "lexing" /\ pc' = "lexing") =>
          (/\ Len(lex'.raw) < Len(lex.raw)
           /\ lex'.raw = SubSeq(lex.raw, Len(lex.raw) - Len(lex'.raw) + 1, Len(lex.raw))
           /\ Len(lex'.tokens) = Len(lex.tokens) + 1
           /\ SubSeq(lex'.tokens, 1, Len(lex.tokens)) = lex.tokens))
     /\ ((pc = "lexing" /\ pc' = "failed") =>
          (lex'.err.k = "UnexpectedToken" /\ lex'.tokens = lex.tokens))
     /\ ((pc = "lexing" /\ pc' = "lexed") => (lex.raw = <<>> /\ lex'.tokens = lex.tokens))
     /\ ((pc = "lexing") => (pc' \in {"lexing", "failed", "lexed"}))
     /\ ((pc \in {"failed", "lexed"}) => (pc' = pc /\ lex' = lex))]_vars

\* The lexer has failed after two tokens, with text left.
C29_Witness ==
  /\ pc = "failed" /\ Len(lex.tokens) = 2 /\ lex.raw # <<>>
  /\ lex.err.k = "UnexpectedToken"

\* Variable tables: none, the constants, f and x bound to numbers, x bound
\* to another variable.
VarBindings ==
  {EmptyMap, NewVars,
   MapInsert(MapInsert(NewVars, "f", TermNum(Single(Int2Num(3)))),
             "x", TermNum(Single(Int2Num(5)))),
   MapInsert(EmptyMap, "x", TermVar("y"))}

\* The environments with the function names, the configuration and the
\* numeric type of ctx: any of the variable tables, and the functions of ctx
\* or Max under every name.
SameNamesAndConfig(ctx) ==
  {[ctx EXCEPT !.vars = vs, !.funcs = fs] :
     vs \in VarBindings,
     fs \in {ctx.funcs, [n \in DOMAIN ctx.funcs |-> "Max"]}}

\* C30: the tree or the ParseError of a text is the same with every
\* environment that has the function names and the configuration of the
\* environment of the parse, whatever its variables and whatever the
\* functions under those names.
C30_NamesAndConfigOnly ==
  pc = "parsed" =>
    \A ctx \in SameNamesAndConfig(pctx) : parse_ctx(text, ctx) = parsed

\* f(x) is the call of f on x with implicit multiplication, in an
\* environment that binds x and not f, and among the environments compared
\* is one that binds f to a number.
C30_Witness ==
  /\ pc = "parsed"
  /\ text = <<"f", "(", "x", ")">>
  /\ pctx.cfg.implicit_multiplication
  /\ parsed = OkTerm(TermFunction("f", <<TermVar("x")>>))
  /\ contains_key(pctx.vars, "x") /\ ~contains_key(pctx.vars, "f")
  /\ \E ctx \in SameNamesAndConfig(pctx) :
        /\ contains_key(ctx.vars, "f")
        /\ ctx.vars # pctx.vars
        /\ parse_ctx(text, ctx) = parsed

(***************************************************************************)
(* max and min.                                                            *)
(***************************************************************************)
\* The greatest (want = "Greater") or least (want = "Less") of the values.
Extreme(vals, want) ==
  CHOOSE v \in {vals[j] : j \in 1..Len(vals)} :
    \A j \in 1..Len(vals) : partial_cmp(vals[j], v) # want

\* C12: a call of max or min with at least one argument, all of which
\* evaluate, yields CmpError when a value of an argument is NaN, and the
\* greatest (least) of the values of the arguments otherwise.
C12_ExtremeOfValues ==
  pc = "evaluated" /\ parsed.v.k = "Function" /\ parsed.v.args # <<>>
    /\ contains_key(ectx.funcs, parsed.v.name)
    /\ ectx.funcs[parsed.v.name] \in {"Max", "Min"} =>
    LET all == EvalAll(parsed.v.args, 1, <<>>, ectx, MaxDepth)
        vals == Flatten(all.v)
        want == IF ectx.funcs[parsed.v.name] = "Max" THEN "Greater" ELSE "Less"
    IN all.ok =>
         IF \E j \in 1..Len(vals) : is_nan(vals[j])
         THEN result = CalcErr(CmpError)
         ELSE result = CalcOk(Single(Extreme(vals, want)))

(***************************************************************************)
(* Texts without names.                                                    *)
(***************************************************************************)
NoNames(raw) == \A j \in 1..Len(raw) : ~is_alphabetic(raw[j]) /\ raw[j] # "_"

\* The environments of the numeric type of ctx.
Environments(ctx) ==
  {c \in EvalContexts \cup ParseContexts : typename(c) = typename(ctx)}

\* lib.rs eval_ctx: the text parsed and evaluated with ctx gives what the
\* state holds for the context of the parse.
SameOutcome(ctx) ==
  LET t == parse_ctx(text, ctx)
  IN IF parsed.ok THEN t.ok /\ eval_ctx(t.v, ctx, MaxDepth) = result
     ELSE t = parsed

\* The text has been parsed and, when that succeeded, evaluated with the
\* context of the parse.
Settled == \/ pc = "parsed" /\ ~parsed.ok
           \/ pc = "evaluated" /\ ectx = pctx

====
